---- MODULE Spec2Model ----
(***************************************************************************)
(* Usage-file synchronisation of infracost (internal/usage, schema).       *)
(*                                                                         *)
(* The sources hold two revisions of the sync:                             *)
(*   rev "B"  usage_file.go 538-977: buildResourceUsage over UsageData,    *)
(*            output sorted by mapToSortedMapSlice, written with yaml.v2;  *)
(*   rev "A"  usage_file.go 1-536 (and the unnamed copy of it):            *)
(*            mergeUsageSchemaItems / syncResourceUsageWithExisting over   *)
(*            []*UsageSchemaItem, written as a yaml.v3 node tree.          *)
(* Both are modelled; the variable rev says which one a behaviour runs.    *)
(* Spec is the program: LoadFromFile, SyncUsageData, and again.  SpecItems *)
(* applies mergeUsageSchemaItems, syncResourceUsageWithExisting and        *)
(* resourceUsagesToYAMLNode of rev "A" to lists of items on their own.     *)
(* SpecData applies Get and the typed getters of schema.UsageData to bags  *)
(* of attributes.                                                          *)
(*                                                                         *)
(* Go values (interface{}) are tagged records:                             *)
(*   [nil |-> TRUE]  [int |-> n]  [fl |-> h] (h halves: 3 is 1.5)          *)
(*   [str |-> s]  [bool |-> b]  [strs |-> <<s..>>] ([]string)              *)
(*   [ilist |-> <<v..>>] ([]interface{})  [map |-> f] (map[string]any)     *)
(*   [items |-> <<item..>>] ([]*UsageSchemaItem)                           *)
(* gjson.Result values:                                                    *)
(*   [gnull |-> TRUE] [gnum |-> h] [gstr |-> s] [gbool |-> b]              *)
(*   [garr |-> <<r..>>] [gobj |-> f]                                       *)
(* YAML nodes (what is on disk), c the line comment:                       *)
(*   [yint |-> n, c] [yfloat |-> h, c] [ystr |-> s, c] [ynull |-> TRUE, c] *)
(*   [ybool |-> b, c]                                                      *)
(*   [yseq |-> <<s..>>, c] [ymap |-> <<[k, v]..>>, c] (ordered pairs)      *)
(*                                                                         *)
(* The disk is taken to work: reading an existing file and writing a file  *)
(* succeed.  A file that is not YAML at all is not modelled.               *)
(***************************************************************************)
EXTENDS Integers, Sequences, FiniteSets, TLC

VARIABLES
    rev,            \* the revision of the sync that runs: "A" or "B"
    pc,             \* where the program is
    usageFilePath,  \* the path given to LoadFromFile and SyncUsageData
    resources,      \* the resources of the projects, in order
    refAsset,       \* the embedded reference usage file
    file,           \* the usage file on disk, NoFile when there is none
    existing,       \* existingUsageData, as LoadFromFile returned it
    loadErr,        \* the error LoadFromFile returned
    refSchema,      \* the reference usage schema the sync loaded
    idx,            \* index of the next resource of the loop
    syncResult,     \* the SyncResult being filled
    usages,         \* syncedResourceUsage (rev B), resourcesUsages (rev A)
    calls,          \* the EstimateUsage invocations of this sync, in order
    ret,            \* what SyncUsageData returned
    run,            \* number of the current load-and-sync round
    firstFile,      \* the file as the first sync wrote it
    arg,            \* the arguments of a function applied on its own (SpecItems)
    res             \* what the function left

vars == <<rev, pc, usageFilePath, resources, refAsset, file, existing, loadErr,
          refSchema, idx, syncResult, usages, calls, ret, run, firstFile, arg, res>>

----------------------------------------------------------------------------
\* Bounds of the model.

\* Longest list of resources a project hands to the sync.
MaxResources == 2
\* Number of SyncUsageData runs in one behaviour (load, sync, load, sync ...).
MaxRuns == 2
\* Largest number whose decimal text the string conversions know.
MaxNum == 9
\* Longest list of schema items the merge and the value sync are tried on.
MaxItems == 2

----------------------------------------------------------------------------
\* Go values.

Nil == [nil |-> TRUE]
IntV(n) == [int |-> n]
FloatV(h) == [fl |-> h]
StrV(s) == [str |-> s]
StrsV(l) == [strs |-> l]
MapV(f) == [map |-> f]
ItemsV(s) == [items |-> s]

IsNil(v) == "nil" \in DOMAIN v
IsInt(v) == "int" \in DOMAIN v
IsFl(v) == "fl" \in DOMAIN v
IsStr(v) == "str" \in DOMAIN v
IsBool(v) == "bool" \in DOMAIN v
IsStrs(v) == "strs" \in DOMAIN v
IsIList(v) == "ilist" \in DOMAIN v
IsMap(v) == "map" \in DOMAIN v
IsItems(v) == "items" \in DOMAIN v

EmptyMap == << >>

\* m[k], or the zero value when the key is missing.
MapGet(m, k, zero) == IF k \in DOMAIN m THEN m[k] ELSE zero

\* m with m[k] = v.
MapPut(m, k, v) == [x \in (DOMAIN m) \cup {k} |-> IF x = k THEN v ELSE m[x]]

----------------------------------------------------------------------------
\* schema.UsageVariableType

Int64 == "Int64"
String == "String"
Float64 == "Float64"
StringArray == "StringArray"
Items == "Items"

\* A UsageSchemaItem.
Item(k, t, d, v, c) ==
    [Key |-> k, ValueType |-> t, DefaultValue |-> d, Value |-> v, Description |-> c]

----------------------------------------------------------------------------
\* Text of keys, addresses and versions: strings are opaque to TLC, so the
\* functions that look inside a string work on its characters.

Chars(s) ==
    CASE s = "d[0].s" -> <<"d", "[", "0", "]", ".", "s">>
      [] s = "d[*].s" -> <<"d", "[", "*", "]", ".", "s">>
      [] s = "d[0].e[1]" -> <<"d", "[", "0", "]", ".", "e", "[", "1", "]">>
      [] s = "d[0].e[*]" -> <<"d", "[", "0", "]", ".", "e", "[", "*", "]">>
      [] s = "d[*].e[1]" -> <<"d", "[", "*", "]", ".", "e", "[", "1", "]">>
      [] s = "aws_x.a" -> <<"aws_x", ".", "a">>
      [] s = "aws_x.b" -> <<"aws_x", ".", "b">>
      [] s = "aws_y.c" -> <<"aws_y", ".", "c">>
      [] s = "aws_z.e" -> <<"aws_z", ".", "e">>
      [] s = "module.m.aws_x.d" -> <<"module", ".", "m", ".", "aws_x", ".", "d">>
      [] s = "aws_x.example" -> <<"aws_x", ".", "example">>
      [] s = "aws_x.other" -> <<"aws_x", ".", "other">>
      [] s = "aws_y.example" -> <<"aws_y", ".", "example">>
      [] OTHER -> <<s>>

\* The strings with more than one token, to turn characters back into a string.
KnownStrings ==
    {"d[0].s", "d[*].s", "d[0].e[1]", "d[0].e[*]", "d[*].e[1]", "aws_x.a",
     "aws_x.b", "aws_y.c", "aws_z.e", "module.m.aws_x.d", "aws_x.example",
     "aws_x.other", "aws_y.example"}

FromChars(cs) ==
    IF Len(cs) = 1 THEN cs[1]
    ELSE IF \E s \in KnownStrings : Chars(s) = cs
         THEN CHOOSE s \in KnownStrings : Chars(s) = cs
         ELSE "<other>"

Contains(s, ch) == \E i \in 1..Len(Chars(s)) : Chars(s)[i] = ch

\* strings.LastIndex on the characters (0 when absent; positions from 1).
LastIndex(cs, ch) ==
    IF \E i \in 1..Len(cs) : cs[i] = ch
    THEN CHOOSE i \in 1..Len(cs) : cs[i] = ch /\ \A j \in (i+1)..Len(cs) : cs[j] # ch
    ELSE 0

\* strings.Split(s, "."): the tokens between the dots.
RECURSIVE SplitDots(_)
SplitDots(cs) ==
    IF \A i \in 1..Len(cs) : cs[i] # "." THEN <<cs>>
    ELSE LET p == CHOOSE i \in 1..Len(cs) : cs[i] = "." /\ \A j \in 1..(i-1) : cs[j] # "."
         IN <<SubSeq(cs, 1, p-1)>> \o SplitDots(SubSeq(cs, p+1, Len(cs)))

Split(s) == LET parts == SplitDots(Chars(s))
            IN [i \in 1..Len(parts) |-> FromChars(parts[i])]

----------------------------------------------------------------------------
\* Decimal text of small numbers (strconv, fmt).

\* The text of h halves: "3", "1.5".
NumText(h) == IF h % 2 = 0 THEN ToString(h \div 2) ELSE ToString(h \div 2) \o ".5"

\* Whether s is the text of a number, and then which (in halves).
IsNumText(s) == \E h \in 0..(2 * MaxNum + 1) : NumText(h) = s
ParseNum(s) == CHOOSE h \in 0..(2 * MaxNum + 1) : NumText(h) = s
IsIntText(s) == \E n \in 0..MaxNum : ToString(n) = s

\* float64 -> int64 conversion truncates toward zero.
Trunc(h) == IF h >= 0 THEN h \div 2 ELSE 0 - ((0 - h) \div 2)

----------------------------------------------------------------------------
\* gjson.Result

GNull == [gnull |-> TRUE]
GNum(h) == [gnum |-> h]
GStr(s) == [gstr |-> s]

IsGNull(r) == "gnull" \in DOMAIN r
IsGNum(r) == "gnum" \in DOMAIN r
IsGStr(r) == "gstr" \in DOMAIN r
IsGBool(r) == "gbool" \in DOMAIN r
IsGArr(r) == "garr" \in DOMAIN r
IsGObj(r) == "gobj" \in DOMAIN r

\* Result.Int()
GjsonInt(r) ==
    CASE IsGNum(r) -> Trunc(r.gnum)
      [] IsGStr(r) -> IF IsIntText(r.gstr) THEN ParseNum(r.gstr) \div 2 ELSE 0
      [] IsGBool(r) -> IF r.gbool THEN 1 ELSE 0
      [] OTHER -> 0

\* Result.Float(), in halves
GjsonFloat(r) ==
    CASE IsGNum(r) -> r.gnum
      [] IsGStr(r) -> IF IsNumText(r.gstr) THEN ParseNum(r.gstr) ELSE 0
      [] IsGBool(r) -> IF r.gbool THEN 2 ELSE 0
      [] OTHER -> 0

\* Result.String(); the raw JSON of an array or object is not spelled out.
GjsonString(r) ==
    CASE IsGNum(r) -> NumText(r.gnum)
      [] IsGStr(r) -> r.gstr
      [] IsGBool(r) -> IF r.gbool THEN "true" ELSE "false"
      [] IsGNull(r) -> ""
      [] OTHER -> "<json>"

\* Result.Array(): a null gives no elements, a non-array one element.
GjsonArray(r) ==
    CASE IsGNull(r) -> << >>
      [] IsGArr(r) -> r.garr
      [] OTHER -> <<r>>

\* Result.Map(): never nil; empty unless the result is a JSON object.
GjsonMap(r) == IF IsGObj(r) THEN r.gobj ELSE EmptyMap

----------------------------------------------------------------------------
\* schema.UsageData and its accessors.

\* json.Marshal(toJSONMap(v)) read back by gjson.ParseBytes.
RECURSIVE toJSONMap(_)
toJSONMap(v) ==
    CASE IsNil(v) -> GNull
      [] IsInt(v) -> GNum(2 * v.int)
      [] IsFl(v) -> GNum(v.fl)
      [] IsStr(v) -> GStr(v.str)
      [] IsBool(v) -> [gbool |-> v.bool]
      [] IsStrs(v) -> [garr |-> [i \in 1..Len(v.strs) |-> GStr(v.strs[i])]]
      [] IsIList(v) -> [garr |-> [i \in 1..Len(v.ilist) |-> toJSONMap(v.ilist[i])]]
      [] IsMap(v) -> [gobj |-> [k \in DOMAIN v.map |-> toJSONMap(v.map[k])]]
      [] IsItems(v) ->
           [garr |-> [i \in 1..Len(v.items) |->
                        [gobj |-> [k \in {"Key"} |-> GStr(v.items[i].Key)]]]]

\* ParseAttributes: only a map has attributes.
ParseAttributes(v) ==
    IF IsMap(v) THEN [k \in DOMAIN v.map |-> toJSONMap(v.map[k])] ELSE EmptyMap

NewUsageData(address, attributes) == [Address |-> address, Attributes |-> attributes]

\* A nil *UsageData.
NoUsageData == [nodata |-> TRUE]
IsNoData(u) == "nodata" \in DOMAIN u

\* convertArrayKeyToWildcard rewriting the first bracket pair, not the last.
convertFirstArrayKeyToWildcard(key) ==
    LET cs == Chars(key)
        firstOpenBracket == CHOOSE i \in 1..Len(cs) : cs[i] = "[" /\ \A j \in 1..(i-1) : cs[j] # "["
        firstCloseBracket == CHOOSE i \in 1..Len(cs) : cs[i] = "]" /\ \A j \in 1..(i-1) : cs[j] # "]"
    IN FromChars(SubSeq(cs, 1, firstOpenBracket) \o <<"*">>
                 \o SubSeq(cs, firstCloseBracket, Len(cs)))

convertArrayKeyToWildcard(key) ==
    LET cs == Chars(key)
        lastOpenBracket == LastIndex(cs, "[")
        lastCloseBracket == LastIndex(cs, "]")
    IN FromChars(SubSeq(cs, 1, lastOpenBracket) \o <<"*">>
                 \o SubSeq(cs, lastCloseBracket, Len(cs)))

Get(u, key) ==
    IF ~IsGNull(MapGet(u.Attributes, key, GNull)) THEN u.Attributes[key]
    ELSE IF Contains(key, "[") /\ Contains(key, "]")
         THEN MapGet(u.Attributes, convertArrayKeyToWildcard(key), GNull)
         ELSE MapGet(u.Attributes, key, GNull)

\* The typed getters return Nil for a nil pointer; the conversions are those
\* of the result Get returned.
FloatOf(r) == IF ~IsGNull(r) THEN FloatV(GjsonFloat(r)) ELSE Nil

IntOf(r) == IF ~IsGNull(r) THEN IntV(GjsonInt(r)) ELSE Nil

StringOf(r) == IF ~IsGNull(r) THEN StrV(GjsonString(r)) ELSE Nil

StringsOf(gjsonArray) == StrsV([i \in 1..Len(gjsonArray) |-> GjsonString(gjsonArray[i])])

StringArrayOf(r) == IF ~IsGNull(r) THEN StringsOf(GjsonArray(r)) ELSE Nil

GetFloat(u, key) == FloatOf(Get(u, key))

GetInt(u, key) == IntOf(Get(u, key))

GetString(u, key) == StringOf(Get(u, key))

GetStringArray(u, key) == StringArrayOf(Get(u, key))

----------------------------------------------------------------------------
\* YAML nodes.

YInt(n, c) == [yint |-> n, c |-> c]
YFloat(h, c) == [yfloat |-> h, c |-> c]
YStr(s, c) == [ystr |-> s, c |-> c]
YNull(c) == [ynull |-> TRUE, c |-> c]
YBool(b, c) == [ybool |-> b, c |-> c]
YSeq(l, c) == [yseq |-> l, c |-> c]
YMap(pairs, c) == [ymap |-> pairs, c |-> c]
KV(k, v) == [k |-> k, v |-> v]

IsYInt(n) == "yint" \in DOMAIN n
IsYFloat(n) == "yfloat" \in DOMAIN n
IsYStr(n) == "ystr" \in DOMAIN n
IsYNull(n) == "ynull" \in DOMAIN n
IsYBool(n) == "ybool" \in DOMAIN n
IsYSeq(n) == "yseq" \in DOMAIN n
IsYMap(n) == "ymap" \in DOMAIN n

\* A mapping node with a key that has no value: its Content has odd length.
\* The trailing key is kept in odd.
YOddMap(pairs, odd) == [ymap |-> pairs, c |-> "", odd |-> odd]
IsOdd(n) == "odd" \in DOMAIN n

\* node.Value, the text of a scalar ("" for a sequence or mapping).
NodeText(n) ==
    CASE IsYInt(n) -> NumText(2 * n.yint)
      [] IsYFloat(n) -> NumText(n.yfloat)
      [] IsYStr(n) -> n.ystr
      [] IsYNull(n) -> "null"
      [] IsYBool(n) -> IF n.ybool THEN "true" ELSE "false"
      [] OTHER -> ""

\* yaml.v3 Decode into interface{}.
RECURSIVE Decode(_)
Decode(n) ==
    CASE IsYInt(n) -> IntV(n.yint)
      [] IsYFloat(n) -> FloatV(n.yfloat)
      [] IsYStr(n) -> StrV(n.ystr)
      [] IsYNull(n) -> Nil
      [] IsYBool(n) -> [bool |-> n.ybool]
      [] IsYSeq(n) -> [ilist |-> [i \in 1..Len(n.yseq) |-> Decode(n.yseq[i])]]
      [] IsYMap(n) ->
           MapV([k \in {n.ymap[i].k : i \in 1..Len(n.ymap)} |->
                   Decode((CHOOSE p \in {n.ymap[i] : i \in 1..Len(n.ymap)} : p.k = k).v)])

\* A usage file on disk: the text of its version and its resource_usage node.
NoFile == [nofile |-> TRUE]
IsNoFile(f) == "nofile" \in DOMAIN f
UsageFile(version, resourceUsage) == [Version |-> version, ResourceUsage |-> resourceUsage]

----------------------------------------------------------------------------
\* golang.org/x/mod/semver on the characters of a version.

Digits == <<"0", "1", "2", "3", "4", "5", "6", "7", "8", "9">>
IsDigit(ch) == \E i \in 1..10 : Digits[i] = ch
DigitVal(ch) == (CHOOSE i \in 1..10 : Digits[i] = ch) - 1

\* Length of the run of digits cs starts with.
RECURSIVE DigitRun(_)
DigitRun(cs) == IF Len(cs) > 0 /\ IsDigit(cs[1]) THEN 1 + DigitRun(Tail(cs)) ELSE 0

RECURSIVE DigitsVal(_)
DigitsVal(cs) == IF Len(cs) = 0 THEN 0 ELSE 10 * DigitsVal(SubSeq(cs, 1, Len(cs) - 1)) + DigitVal(cs[Len(cs)])

\* parseInt: a run of digits with no leading zero; the number and the rest.
ParseIntOK(cs) == DigitRun(cs) > 0 /\ (DigitRun(cs) > 1 => cs[1] # "0")
ParseIntVal(cs) == DigitsVal(SubSeq(cs, 1, DigitRun(cs)))
ParseIntRest(cs) == SubSeq(cs, DigitRun(cs) + 1, Len(cs))

\* The identifiers after '-' or '+': letters and digits, none empty; the text
\* up to the first stop character, which must not be empty.
IdentLen(cs, stops) ==
    IF \E i \in 1..Len(cs) : cs[i] \in stops
    THEN (CHOOSE i \in 1..Len(cs) : cs[i] \in stops /\ \A j \in 1..(i-1) : cs[j] \notin stops) - 1
    ELSE Len(cs)

BadSemver == [ok |-> FALSE]

\* After the patch number: an optional -prerelease, an optional +build, then the end.
ParseTail(major, minor, patch, cs) ==
    LET hasPre == Len(cs) > 0 /\ cs[1] = "-"
        preLen == IF hasPre THEN IdentLen(Tail(cs), {"+"}) ELSE 0
        afterPre == IF hasPre THEN SubSeq(cs, preLen + 2, Len(cs)) ELSE cs
        hasBuild == Len(afterPre) > 0 /\ afterPre[1] = "+"
        buildLen == IF hasBuild THEN Len(afterPre) - 1 ELSE 0
    IN IF hasPre /\ preLen = 0 THEN BadSemver
       ELSE IF hasBuild /\ buildLen = 0 THEN BadSemver
       ELSE IF ~hasBuild /\ Len(afterPre) > 0 THEN BadSemver
       ELSE [ok |-> TRUE, major |-> major, minor |-> minor, patch |-> patch,
             prerelease |-> IF hasPre THEN SubSeq(cs, 1, preLen + 1) ELSE << >>]

ParsePatch(major, minor, cs) ==
    IF Len(cs) = 0
    THEN [ok |-> TRUE, major |-> major, minor |-> minor, patch |-> 0, prerelease |-> << >>]
    ELSE IF cs[1] # "." \/ ~ParseIntOK(Tail(cs)) THEN BadSemver
    ELSE ParseTail(major, minor, ParseIntVal(Tail(cs)), ParseIntRest(Tail(cs)))

ParseMinor(major, cs) ==
    IF Len(cs) = 0
    THEN [ok |-> TRUE, major |-> major, minor |-> 0, patch |-> 0, prerelease |-> << >>]
    ELSE IF cs[1] # "." \/ ~ParseIntOK(Tail(cs)) THEN BadSemver
    ELSE ParsePatch(major, ParseIntVal(Tail(cs)), ParseIntRest(Tail(cs)))

\* semver.parse
ParseSemver(v) ==
    IF Len(v) = 0 \/ v[1] # "v" \/ ~ParseIntOK(Tail(v)) THEN BadSemver
    ELSE ParseMinor(ParseIntVal(Tail(v)), ParseIntRest(Tail(v)))

CompareInt(x, y) == IF x = y THEN 0 ELSE IF x < y THEN 0 - 1 ELSE 1

\* A version with a prerelease is older than the same version without one;
\* two different prereleases are not ordered here (the supported range has none).
ComparePrerelease(x, y) ==
    IF x = y THEN 0 ELSE IF x = << >> THEN 1 ELSE 0 - 1

\* semver.Compare on the parsed versions: an invalid version is less than a
\* valid one.
CompareParsed(pv, pw) ==
    IF ~pv.ok /\ ~pw.ok THEN 0
    ELSE IF ~pv.ok THEN 0 - 1
    ELSE IF ~pw.ok THEN 1
    ELSE IF pv.major # pw.major THEN CompareInt(pv.major, pw.major)
    ELSE IF pv.minor # pw.minor THEN CompareInt(pv.minor, pw.minor)
    ELSE IF pv.patch # pw.patch THEN CompareInt(pv.patch, pw.patch)
    ELSE ComparePrerelease(pv.prerelease, pw.prerelease)

SemverCompare(v, w) == CompareParsed(ParseSemver(v), ParseSemver(w))

minUsageFileVersion == <<"0", ".", "1">>
maxUsageFileVersion == <<"0", ".", "1">>

HasPrefixV(v) == Len(v) > 0 /\ v[1] = "v"

\* v with a "v" before it unless it has one.
WithV(v) == IF ~HasPrefixV(v) THEN <<"v">> \o v ELSE v

\* InRange without the comparison with the lowest supported version.
InRangeUpTo(vv) == SemverCompare(vv, <<"v">> \o maxUsageFileVersion) <= 0

InRange(vv) ==
    /\ SemverCompare(vv, <<"v">> \o minUsageFileVersion) >= 0
    /\ SemverCompare(vv, <<"v">> \o maxUsageFileVersion) <= 0

checkVersion(v) == InRange(WithV(v))

\* parseYAML of the bytes of a file: the UsageFile and whether the version
\* check failed.  (The bytes are a document already; a document that is not
\* YAML at all is not modelled.)
parseYAML(y) ==
    IF ~checkVersion(y.Version)
    THEN [usageFile |-> y, err |-> "Invalid usage file version"]
    ELSE [usageFile |-> y, err |-> "nil"]

----------------------------------------------------------------------------
\* sort.Strings: byte order of the strings the model uses as map keys.

StringOrder ==
    <<"a", "aws_x.a", "aws_x.b", "aws_y.c", "aws_z.e", "b", "c", "d[*].e[1]",
      "d[*].s", "d[0].e[*]", "d[0].e[1]", "d[0].s", "e", "f", "g", "k", "l",
      "module.m.aws_x.d", "noname", "s", "x", "y", "z">>

Rank(s) == CHOOSE i \in 1..Len(StringOrder) : StringOrder[i] = s

\* SortStrings without the sort: the keys as a range over the map can give
\* them, here from the last to the first.
RECURSIVE KeysUnsorted(_)
KeysUnsorted(S) ==
    IF S = {} THEN << >>
    ELSE LET m == CHOOSE x \in S : \A y \in S : Rank(x) >= Rank(y)
         IN <<m>> \o KeysUnsorted(S \ {m})

RECURSIVE SortStrings(_)
SortStrings(S) ==
    IF S = {} THEN << >>
    ELSE LET m == CHOOSE x \in S : \A y \in S : Rank(x) <= Rank(y)
         IN <<m>> \o SortStrings(S \ {m})

----------------------------------------------------------------------------
\* The reference usage schema (rev B: loadUsageSchema, toSchemaItem).

\* The embedded asset is absent.
NoAsset == [noasset |-> TRUE]
IsNoAsset(a) == "noasset" \in DOMAIN a

\* toSchemaItem (usage_file.go 825-877): Description is not set.
\* The Items item of a mapping node whose children gave subs.
GroupItem(keyNode, valNode, subs, description) ==
    IF IsOdd(valNode) \/ \E i \in 1..Len(subs) : subs[i].err # "nil"
    THEN [err |-> "unexpected YAML format"]
    ELSE [err |-> "nil",
          item |-> Item(keyNode, Items, ItemsV([i \in 1..Len(subs) |-> subs[i].item]),
                        Nil, description)]

RECURSIVE toSchemaItemB(_, _)
toSchemaItemB(keyNode, valNode) ==
    CASE IsYInt(valNode) ->
           [err |-> "nil", item |-> Item(keyNode, Int64, IntV(0), Nil, "")]
      [] IsYFloat(valNode) ->
           [err |-> "nil", item |-> Item(keyNode, Float64, FloatV(0), Nil, "")]
      [] IsYMap(valNode) ->
           GroupItem(keyNode, valNode,
                     [i \in 1..Len(valNode.ymap) |->
                        toSchemaItemB(valNode.ymap[i].k, valNode.ymap[i].v)], "")
      [] OTHER ->
           [err |-> "nil", item |-> Item(keyNode, String, StrV(NodeText(valNode)), Nil, "")]

loadReferenceFile(asset) ==
    IF IsNoAsset(asset)
    THEN [usageFile |-> asset, err |-> "Could not find reference usage file"]
    ELSE parseYAML(asset)

\* The entries of the document in order, each replacing what its resource
\* type held before (usageSchema[resourceType] = make(...)).
\* The schema items of the attributes of one entry.
AttrPairs(resourceValNode) == IF IsYMap(resourceValNode) THEN resourceValNode.ymap ELSE << >>
SchemaItemsB(attrs) == [j \in 1..Len(attrs) |-> toSchemaItemB(attrs[j].k, attrs[j].v)]
AnyErr(got) == \E j \in 1..Len(got) : got[j].err # "nil"
ItemsOf(got) == [j \in 1..Len(got) |-> got[j].item]

RECURSIVE loadUsageSchemaFrom(_, _, _)
LoadEntryB(pairs, i, schemas, got) ==
    IF IsOdd(pairs[i].v)
    THEN [usageSchema |-> schemas,
          err |-> "Error loading reference usage file: unexpected YAML format"]
    ELSE IF AnyErr(got)
    THEN [usageSchema |-> schemas, err |-> "Error loading reference usage file"]
    ELSE loadUsageSchemaFrom(pairs, i + 1,
                             MapPut(schemas, Split(pairs[i].k)[1], ItemsOf(got)))

loadUsageSchemaFrom(pairs, i, schemas) ==
    IF i > Len(pairs) THEN [usageSchema |-> schemas, err |-> "nil"]
    ELSE LoadEntryB(pairs, i, schemas, SchemaItemsB(AttrPairs(pairs[i].v)))

\* SchemaOfLoaded going on with a reference file whose version check failed.
SchemaOfLoadedAnyVersion(loaded) ==
    IF IsNoAsset(loaded.usageFile) THEN [usageSchema |-> EmptyMap, err |-> loaded.err]
    ELSE IF IsOdd(loaded.usageFile.ResourceUsage)
    THEN [usageSchema |-> EmptyMap,
          err |-> "Error loading reference usage file: unexpected YAML format"]
    ELSE loadUsageSchemaFrom(
             IF IsYMap(loaded.usageFile.ResourceUsage)
             THEN loaded.usageFile.ResourceUsage.ymap ELSE << >>, 1, EmptyMap)

\* loadUsageSchema once loadReferenceFile has returned loaded.
SchemaOfLoaded(loaded) ==
    IF loaded.err # "nil" THEN [usageSchema |-> EmptyMap, err |-> loaded.err]
    ELSE IF IsOdd(loaded.usageFile.ResourceUsage)
    THEN [usageSchema |-> EmptyMap,
          err |-> "Error loading reference usage file: unexpected YAML format"]
    ELSE loadUsageSchemaFrom(
             IF IsYMap(loaded.usageFile.ResourceUsage)
             THEN loaded.usageFile.ResourceUsage.ymap ELSE << >>, 1, EmptyMap)

loadUsageSchema(asset) == SchemaOfLoaded(loadReferenceFile(asset))

----------------------------------------------------------------------------
\* rev B: one resource's usage map.

schemaItemsToUsageSchemaItems(schemaItems) ==
    [i \in 1..Len(schemaItems) |->
        Item(schemaItems[i].Key, schemaItems[i].ValueType, schemaItems[i].DefaultValue, Nil, "")]

\* The children of a group's DefaultValue (a type assertion in the source).
Children(v) == IF IsItems(v) THEN v.items ELSE << >>

RECURSIVE itemsToMap(_)
itemsToMap(items) ==
    [k \in {items[i].Key : i \in 1..Len(items)} |->
        LET item == items[CHOOSE i \in 1..Len(items) :
                             items[i].Key = k /\ \A j \in (i+1)..Len(items) : items[j].Key # k]
        IN IF item.ValueType = Items THEN MapV(itemsToMap(Children(item.DefaultValue)))
           ELSE item.DefaultValue]

\* The value the existing usage data holds for one schema item, Nil if none.
RECURSIVE buildResourceUsage(_, _)
ExistingUsageValue(usageSchemaItem, existingUsageData) ==
    LET usageKey == usageSchemaItem.Key
        usageValueType == usageSchemaItem.ValueType
    IN IF IsNoData(existingUsageData) THEN Nil
       ELSE CASE usageValueType = Float64 -> GetFloat(existingUsageData, usageKey)
              [] usageValueType = Int64 -> GetInt(existingUsageData, usageKey)
              [] usageValueType = String -> GetString(existingUsageData, usageKey)
              [] usageValueType = StringArray -> GetStringArray(existingUsageData, usageKey)
              [] usageValueType = Items ->
                   MapV(buildResourceUsage(
                            Children(usageSchemaItem.DefaultValue),
                            NewUsageData(usageKey, GjsonMap(Get(existingUsageData, usageKey)))))
              [] OTHER -> Nil

\* EntryOf with an existing list of strings appended to the default list
\* instead of replacing it.
EntryOfAppending(usageSchemaItem, existingUsageValue) ==
    IF IsStrs(existingUsageValue) /\ IsStrs(usageSchemaItem.DefaultValue)
    THEN StrsV(usageSchemaItem.DefaultValue.strs \o existingUsageValue.strs)
    ELSE IF ~IsNil(existingUsageValue) THEN existingUsageValue
    ELSE IF usageSchemaItem.ValueType = Items
         THEN MapV(itemsToMap(Children(usageSchemaItem.DefaultValue)))
         ELSE usageSchemaItem.DefaultValue

\* What usage[usageKey] ends as for one schema item: the existing value, or
\* the default (a group's default as a map).
EntryOf(usageSchemaItem, existingUsageValue) ==
    IF ~IsNil(existingUsageValue) THEN existingUsageValue
    ELSE IF usageSchemaItem.ValueType = Items
         THEN MapV(itemsToMap(Children(usageSchemaItem.DefaultValue)))
         ELSE usageSchemaItem.DefaultValue

UsageEntry(usageSchemaItem, existingUsageData) ==
    EntryOf(usageSchemaItem, ExistingUsageValue(usageSchemaItem, existingUsageData))

\* The loop assigns usage[usageKey] item by item: the last item of a key wins.
buildResourceUsage(schemaItems, existingUsageData) ==
    [k \in {schemaItems[i].Key : i \in 1..Len(schemaItems)} |->
        UsageEntry(schemaItems[CHOOSE i \in 1..Len(schemaItems) :
                                  /\ schemaItems[i].Key = k
                                  /\ \A j \in (i+1)..Len(schemaItems) : schemaItems[j].Key # k],
                   existingUsageData)]

\* yaml.MapSlice: [slice |-> <<[Key, Value]..>>]
IsSlice(v) == "slice" \in DOMAIN v

RECURSIVE mapToSortedMapSlice(_)
mapToSortedMapSlice(input) ==
    LET keys == SortStrings(DOMAIN input)
    IN [slice |-> [i \in 1..Len(keys) |->
                     LET v == input[keys[i]]
                     IN IF IsMap(v)
                        THEN [Key |-> keys[i], Value |-> mapToSortedMapSlice(v.map)]
                        ELSE [Key |-> keys[i], Value |-> v]]]

\* yaml.v2 Marshal of a value: a float64 with no fraction is written like an
\* int; the keys of a plain map are written sorted.
RECURSIVE MarshalV2(_)
MarshalV2(v) ==
    CASE IsSlice(v) ->
           YMap([i \in 1..Len(v.slice) |-> KV(v.slice[i].Key, MarshalV2(v.slice[i].Value))], "")
      [] IsNil(v) -> YNull("")
      [] IsInt(v) -> YInt(v.int, "")
      [] IsFl(v) -> IF v.fl % 2 = 0 THEN YInt(v.fl \div 2, "") ELSE YFloat(v.fl, "")
      [] IsStr(v) -> YStr(v.str, "")
      [] IsBool(v) -> YBool(v.bool, "")
      [] IsStrs(v) -> YSeq([i \in 1..Len(v.strs) |-> YStr(v.strs[i], "")], "")
      [] IsIList(v) -> YSeq([i \in 1..Len(v.ilist) |-> MarshalV2(v.ilist[i])], "")
      [] IsMap(v) -> MarshalV2(mapToSortedMapSlice(v.map))
      [] IsItems(v) ->
           YSeq([i \in 1..Len(v.items) |->
                   YMap(<<KV("key", YStr(v.items[i].Key, ""))>>, "")], "")

----------------------------------------------------------------------------
\* Resources.  A resource is
\*   [Name, UsageSchema (Nil or ItemsV), HasEstimate, Err, Writes]
\* HasEstimate says whether EstimateUsage is non-nil; the callback writes
\* Writes into the map it is passed and returns an error iff Err.

Resource(name, schema, hasEstimate, err, writes) ==
    [Name |-> name, UsageSchema |-> schema, HasEstimate |-> hasEstimate,
     Err |-> err, Writes |-> writes]

\* The callback: the map as the callback left it, and the error it returned.
EstimateUsage(resource, m) ==
    [usage |-> [k \in (DOMAIN m) \cup (DOMAIN resource.Writes) |->
                  IF k \in DOMAIN resource.Writes THEN resource.Writes[k] ELSE m[k]],
     err |-> IF resource.Err THEN "estimate failed" ELSE "nil"]

EmptySyncResult == [ResourceCount |-> 0, EstimationCount |-> 0, EstimationErrors |-> EmptyMap]

----------------------------------------------------------------------------
\* rev B: syncResourcesUsage (usage_file.go 605-651), one resource at a time.

\* The schema the resource is built from, or skip when it has neither a
\* declared schema nor a reference schema of its type.
ResourceUSchema(resource, schemas) ==
    IF ~IsNil(resource.UsageSchema) THEN [skip |-> FALSE, schema |-> resource.UsageSchema.items]
    ELSE LET resourceTypeNames == Split(resource.Name)
         IN IF Len(resourceTypeNames) < 2 THEN [skip |-> TRUE]
            ELSE LET resourceTypeName == resourceTypeNames[Len(resourceTypeNames) - 1]
                 IN IF resourceTypeName \notin DOMAIN schemas THEN [skip |-> TRUE]
                    ELSE [skip |-> FALSE,
                          schema |-> schemaItemsToUsageSchemaItems(schemas[resourceTypeName])]

\* RecordEstimation without the test of the error: every resource that has a
\* callback gets an entry.
RecordEveryEstimation(result, resource, err) ==
    [ResourceCount |-> result.ResourceCount + 1,
     EstimationCount |-> result.EstimationCount + (IF resource.HasEstimate THEN 1 ELSE 0),
     EstimationErrors |->
        IF resource.HasEstimate
        THEN MapPut(result.EstimationErrors, resource.Name, err)
        ELSE result.EstimationErrors]

\* The counters and the error map after the estimation of one resource.
RecordEstimation(result, resource, err) ==
    [ResourceCount |-> result.ResourceCount + 1,
     EstimationCount |-> result.EstimationCount + (IF resource.HasEstimate THEN 1 ELSE 0),
     EstimationErrors |->
        IF resource.HasEstimate /\ err # "nil"
        THEN MapPut(result.EstimationErrors, resource.Name, err)
        ELSE result.EstimationErrors]

\* The callback's outcome, or the map as it is when there is no callback.
Estimated(resource, m) ==
    IF resource.HasEstimate THEN EstimateUsage(resource, m)
    ELSE [usage |-> m, err |-> "nil"]

\* The invocations of EstimateUsage so far.
Called(log, resource, est) ==
    IF resource.HasEstimate
    THEN Append(log, [Name |-> resource.Name, err |-> est.err, usage |-> est.usage])
    ELSE log

\* AfterEstimateB with a failed estimation dropping the usage collected so far.
AfterEstimateAborting(resource, est, st) ==
    [syncResult |-> RecordEstimation(st.syncResult, resource, est.err),
     usages |-> MapPut(IF est.err # "nil" THEN EmptyMap ELSE st.usages,
                       resource.Name, MapV(est.usage)),
     calls |-> Called(st.calls, resource, est)]

\* The end of the loop body, est being what the estimation gave.
AfterEstimateB(resource, est, st) ==
    [syncResult |-> RecordEstimation(st.syncResult, resource, est.err),
     usages |-> MapPut(st.usages, resource.Name, MapV(est.usage)),
     calls |-> Called(st.calls, resource, est)]

SyncWithSchemaB(resource, u, existingUsageData, st) ==
    IF u.skip THEN st
    ELSE AfterEstimateB(resource,
             Estimated(resource,
                 buildResourceUsage(u.schema,
                     MapGet(existingUsageData, resource.Name, NoUsageData))),
             st)

\* The body of the loop: st is [syncResult, usages, calls].
SyncOneB(resource, schemas, existingUsageData, st) ==
    SyncWithSchemaB(resource, ResourceUSchema(resource, schemas), existingUsageData, st)

\* The whole loop over the resources rs, from the state st on.
RECURSIVE syncResourcesUsageB(_, _, _, _)
syncResourcesUsageB(rs, schemas, existingUsageData, st) ==
    IF rs = << >> THEN st
    ELSE syncResourcesUsageB(Tail(rs), schemas, existingUsageData,
                             SyncOneB(Head(rs), schemas, existingUsageData, st))

\* The file SyncUsageData marshals and writes: version 0.1 and the sorted usage.
WrittenFileB(synced) ==
    UsageFile(<<"0", ".", "1">>, MarshalV2(mapToSortedMapSlice(synced)))

----------------------------------------------------------------------------
\* rev B: LoadFromFile (usage_file.go 908-954).

\* The file LoadFromFile creates when there is none.
SkeletonFile == UsageFile(maxUsageFileVersion, YMap(<< >>, ""))

NewUsageMap(m) == [addr \in DOMAIN m |-> NewUsageData(addr, ParseAttributes(m[addr]))]

\* The usage data of the decoded resource_usage node.
UsageMapOf(m) == IF IsMap(m) THEN NewUsageMap(m.map) ELSE EmptyMap

\* LoadFromFile once parseYAML has returned y.
LoadedOfB(y) ==
    IF y.err # "nil" THEN [usageData |-> EmptyMap, err |-> "Error parsing usage file"]
    ELSE [usageData |-> UsageMapOf(Decode(y.usageFile.ResourceUsage)), err |-> "nil"]

\* What LoadFromFile returns for the file f it read.
LoadedB(f) == LoadedOfB(parseYAML(f))

----------------------------------------------------------------------------
\* rev A: the reference schema and LoadFromFile (usage_file.go 303-358, 412-514).

\* toSchemaItem (usage_file.go 412-465): the line comment is the Description.
RECURSIVE toSchemaItemA(_, _)
toSchemaItemA(keyNode, valNode) ==
    CASE IsYInt(valNode) ->
           [err |-> "nil", item |-> Item(keyNode, Int64, IntV(0), Nil, valNode.c)]
      [] IsYFloat(valNode) ->
           [err |-> "nil", item |-> Item(keyNode, Float64, FloatV(0), Nil, valNode.c)]
      [] IsYMap(valNode) ->
           GroupItem(keyNode, valNode,
                     [i \in 1..Len(valNode.ymap) |->
                        toSchemaItemA(valNode.ymap[i].k, valNode.ymap[i].v)], valNode.c)
      [] OTHER ->
           [err |-> "nil",
            item |-> Item(keyNode, String, StrV(NodeText(valNode)), Nil, valNode.c)]

SchemaItemsA(attrs) == [j \in 1..Len(attrs) |-> toSchemaItemA(attrs[j].k, attrs[j].v)]

RECURSIVE loadUsageFileFrom(_, _, _)
LoadEntryA(pairs, i, schemas, got) ==
    IF IsOdd(pairs[i].v)
    THEN [usageSchema |-> schemas,
          err |-> "Error loading reference usage file: unexpected YAML format"]
    ELSE IF AnyErr(got)
    THEN [usageSchema |-> MapPut(schemas, pairs[i].k, << >>),
          err |-> "Error loading reference usage file"]
    ELSE loadUsageFileFrom(pairs, i + 1, MapPut(schemas, pairs[i].k, ItemsOf(got)))

loadUsageFileFrom(pairs, i, schemas) ==
    IF i > Len(pairs) THEN [usageSchema |-> schemas, err |-> "nil"]
    ELSE LoadEntryA(pairs, i, schemas, SchemaItemsA(AttrPairs(pairs[i].v)))

loadUsageFileIntoUsageSchema(usageFile) ==
    IF IsOdd(usageFile.ResourceUsage)
    THEN [usageSchema |-> EmptyMap,
          err |-> "Error loading reference usage file: unexpected YAML format"]
    ELSE loadUsageFileFrom(AttrPairs(usageFile.ResourceUsage), 1, EmptyMap)

\* loadReferenceUsageSchema once the file is loaded and turned into raw:
\* usageSchema is a nil map, so the assignment of the first entry panics
\* (assignment to entry in nil map).
NilMapFill(raw) ==
    IF raw.err # "nil" THEN [usageSchema |-> EmptyMap, err |-> raw.err, panic |-> FALSE]
    ELSE [usageSchema |-> EmptyMap, err |-> "nil", panic |-> DOMAIN raw.usageSchema # {}]

ReferenceOfLoaded(loaded) ==
    IF loaded.err # "nil" THEN [usageSchema |-> EmptyMap, err |-> loaded.err, panic |-> FALSE]
    ELSE NilMapFill(loadUsageFileIntoUsageSchema(loaded.usageFile))

loadReferenceUsageSchema(asset) == ReferenceOfLoaded(loadReferenceFile(asset))

\* LoadFromFile once parseYAML has returned y.
LoadedOfA(y) ==
    IF y.err # "nil" THEN [usageData |-> EmptyMap, err |-> "Error parsing usage file"]
    ELSE [usageData |-> loadUsageFileIntoUsageSchema(y.usageFile).usageSchema,
          err |-> loadUsageFileIntoUsageSchema(y.usageFile).err]

LoadedA(f) == LoadedOfA(parseYAML(f))

----------------------------------------------------------------------------
\* rev A: merging schema items (usage_file.go 130-177).

findMatchingReferenceUsageSchema(schemas, resource) ==
    LET addrParts == Split(resource.Name)
    IN IF Len(addrParts) < 2 THEN [schema |-> << >>, ok |-> FALSE]
       ELSE LET resourceTypeName == addrParts[Len(addrParts) - 1]
            IN IF resourceTypeName \in DOMAIN schemas
               THEN [schema |-> schemas[resourceTypeName], ok |-> TRUE]
               ELSE [schema |-> << >>, ok |-> FALSE]

\* mergeUsageSchemaItems(dest, src) gives [dest, panic]: dest is the caller's
\* list after the call.  The slice is passed by value, so an item appended
\* inside the call is not in the caller's list; the items are pointers, so
\* what the call writes into an item of the list is.  panic: the call ended in
\* a run-time panic (a write through the nil destItem of a key that dest does
\* not have, or a failed type assertion); what it wrote before stays written.
RECURSIVE mergeUsageSchemaItems(_, _)

\* PutItem putting the merged item next to the one it was merged into.
PutItemBeside(dest, i, d, p) ==
    [dest |-> SubSeq(dest, 1, i) \o <<d>> \o SubSeq(dest, i + 1, Len(dest)), panic |-> p]

\* dest with its i-th item replaced, and whether the call panicked.
PutItem(dest, i, d, p) == [dest |-> [dest EXCEPT ![i] = d], panic |-> p]

\* destItem.ValueType and destItem.Description are set first.
Retyped(d, srcItem) ==
    [d EXCEPT !.ValueType = srcItem.ValueType, !.Description = srcItem.Description]

\* A group's nil DefaultValue and Value become empty lists.
WithLists(d) ==
    [d EXCEPT !.DefaultValue = IF IsNil(d.DefaultValue) THEN ItemsV(<< >>)
                               ELSE d.DefaultValue,
              !.Value = IF IsNil(d.Value) THEN ItemsV(<< >>) ELSE d.Value]

MergeGroupDone(dest, i, d3, m2) ==
    PutItem(dest, i, [d3 EXCEPT !.Value = ItemsV(m2.dest)], m2.panic)

MergeGroupValue(dest, srcItem, i, d2, m1) ==
    IF m1.panic \/ ~IsItems(d2.Value)
    THEN PutItem(dest, i, [d2 EXCEPT !.DefaultValue = ItemsV(m1.dest)], TRUE)
    ELSE MergeGroupDone(dest, i, [d2 EXCEPT !.DefaultValue = ItemsV(m1.dest)],
                        mergeUsageSchemaItems(d2.Value.items, srcItem.Value.items))

MergeGroup(dest, srcItem, i, d2) ==
    IF ~IsItems(d2.DefaultValue) THEN PutItem(dest, i, d2, TRUE)
    ELSE MergeGroupValue(dest, srcItem, i, d2,
             mergeUsageSchemaItems(d2.DefaultValue.items, srcItem.DefaultValue.items))

\* The merge into destItem, the i-th item of dest.
MergeAt(dest, srcItem, i) ==
    IF srcItem.ValueType # Items
    THEN PutItem(dest, i, [Retyped(dest[i], srcItem) EXCEPT
                              !.DefaultValue = srcItem.DefaultValue,
                              !.Value = srcItem.Value], FALSE)
    ELSE IF ~IsItems(srcItem.DefaultValue) \/ ~IsItems(srcItem.Value)
    THEN PutItem(dest, i, Retyped(dest[i], srcItem), TRUE)
    ELSE MergeGroup(dest, srcItem, i, WithLists(Retyped(dest[i], srcItem)))

\* MergeInto appending the source item instead of merging it by its key.
MergeIntoAppending(dest, srcItem, hits) ==
    [dest |-> Append(dest, srcItem), panic |-> FALSE]

\* destItemMap holds the last item of each key; a key it does not hold gives
\* a nil destItem, and the write through it panics.
MergeInto(dest, srcItem, hits) ==
    IF hits = {} THEN [dest |-> dest, panic |-> TRUE]
    ELSE MergeAt(dest, srcItem, CHOOSE x \in hits : \A y \in hits : y <= x)

\* The merge of one source item.
MergeItem(dest, srcItem) ==
    MergeInto(dest, srcItem, {i \in 1..Len(dest) : dest[i].Key = srcItem.Key})

RECURSIVE MergeFrom(_, _, _)
MergeNext(m, src, n) == IF m.panic THEN m ELSE MergeFrom(m.dest, src, n + 1)

MergeFrom(dest, src, n) ==
    IF n > Len(src) THEN [dest |-> dest, panic |-> FALSE]
    ELSE MergeNext(MergeItem(dest, src[n]), src, n)

mergeUsageSchemaItems(dest, src) == MergeFrom(dest, src, 1)

----------------------------------------------------------------------------
\* rev A: values from usage data, and the YAML node tree (usage_file.go 39-46, 179-301).

\* ResourceUsage.Map
ResourceUsageMap(items) ==
    [k \in {items[i].Key : i \in 1..Len(items)} |->
        items[CHOOSE i \in 1..Len(items) :
                 items[i].Key = k /\ \A j \in (i+1)..Len(items) : items[j].Key # k].Value]

\* The Value syncResourceUsageWithExisting gives one item: the switch has no
\* case for String, and the case for Items syncs a fresh, empty ResourceUsage.
SyncedValue(item, existingData) ==
    CASE item.ValueType = Int64 -> GetInt(existingData, item.Key)
      [] item.ValueType = Float64 -> GetFloat(existingData, item.Key)
      [] item.ValueType = StringArray -> GetStringArray(existingData, item.Key)
      [] OTHER -> Nil

\* The items of resourceUsage after the call.
syncResourceUsageWithExisting(items, existingData) ==
    IF IsNoData(existingData) THEN items
    ELSE [i \in 1..Len(items) |-> [items[i] EXCEPT !.Value = SyncedValue(items[i], existingData)]]

\* Whether the type assertions and verbs of the rendering fit the raw value.
RawValue(item) == IF IsNil(item.Value) THEN item.DefaultValue ELSE item.Value

\* resourceUsagesToYAMLNode: the pairs of the root mapping node.  A group is
\* rendered by the recursive call, which drops a group with no children.
RECURSIVE NodePairs(_)
ItemPairs(item) ==
    LET rawValue == RawValue(item)
    IN CASE item.ValueType = Items ->
              NodePairs(<<[Key |-> item.Key, Items |-> Children(rawValue)]>>)
         [] item.ValueType = Float64 ->
              <<KV(item.Key, YFloat(IF IsFl(rawValue) THEN rawValue.fl
                                    ELSE IF IsInt(rawValue) THEN 2 * rawValue.int ELSE 0,
                                    item.Description))>>
         [] item.ValueType = Int64 ->
              <<KV(item.Key, YInt(IF IsInt(rawValue) THEN rawValue.int ELSE 0,
                                  item.Description))>>
         [] item.ValueType = String ->
              <<KV(item.Key, YStr(IF IsStr(rawValue) THEN rawValue.str ELSE "",
                                  item.Description))>>
         [] item.ValueType = StringArray ->
              <<KV(item.Key, YSeq(IF IsStrs(rawValue)
                                  THEN [i \in 1..Len(rawValue.strs) |-> YStr(rawValue.strs[i], "")]
                                  ELSE << >>, item.Description))>>
         [] OTHER -> <<KV(item.Key, YStr("", item.Description))>>

RECURSIVE ConcatPairs(_, _)
ConcatPairs(items, n) ==
    IF n > Len(items) THEN << >> ELSE ItemPairs(items[n]) \o ConcatPairs(items, n + 1)

NodePairs(resourceUsages) ==
    IF Len(resourceUsages) = 0 THEN << >>
    ELSE LET resourceUsage == resourceUsages[1]
         IN (IF Len(resourceUsage.Items) = 0 THEN << >>
             ELSE <<KV(resourceUsage.Key, YMap(ConcatPairs(resourceUsage.Items, 1), ""))>>)
            \o NodePairs(Tail(resourceUsages))

resourceUsagesToYAMLNode(resourceUsages) == YMap(NodePairs(resourceUsages), "")

\* The file the sync marshals (yaml.v3) and writes.
WrittenFileA(resourcesUsages) ==
    UsageFile(maxUsageFileVersion, resourceUsagesToYAMLNode(resourcesUsages))

\* The loop body from the estimation on (usage_file.go 106-123).
AfterEstimateA(resource, st, items, est) ==
    [syncResult |-> RecordEstimation(st.syncResult, resource, est.err),
     usages |-> Append(st.usages,
                    [Key |-> resource.Name,
                     Items |-> IF resource.HasEstimate
                               THEN syncResourceUsageWithExisting(items,
                                        NewUsageData(resource.Name,
                                                     ParseAttributes(MapV(est.usage))))
                               ELSE items]),
     calls |-> Called(st.calls, resource, est),
     panic |-> FALSE]

\* The three merges are handed resourceUsage.Items by value and their results
\* are dropped: the list the loop holds stays as it was, and a merge that
\* panics ends the run.
AfterMerges(resource, st, items, panicked) ==
    IF panicked THEN [st EXCEPT !.panic = TRUE]
    ELSE AfterEstimateA(resource, st, items,
                        Estimated(resource, ResourceUsageMap(items)))

MergeReference(dest, match) ==
    IF match.ok THEN mergeUsageSchemaItems(dest, match.schema)
    ELSE [dest |-> dest, panic |-> FALSE]

\* The existing usage data is merged only when there is none.
MergeExisting(dest, resource, existingUsageData) ==
    IF resource.Name \notin DOMAIN existingUsageData
    THEN mergeUsageSchemaItems(dest, << >>)
    ELSE [dest |-> dest, panic |-> FALSE]

\* The body of the loop (usage_file.go 88-123): st is [syncResult, usages,
\* calls, panic].  resourceUsage.Items starts nil.
SyncOneA(resource, schemas, existingUsageData, st) ==
    AfterMerges(resource, st, << >>,
        \/ MergeReference(<< >>, findMatchingReferenceUsageSchema(schemas, resource)).panic
        \/ mergeUsageSchemaItems(<< >>, Children(resource.UsageSchema)).panic
        \/ MergeExisting(<< >>, resource, existingUsageData).panic)

----------------------------------------------------------------------------
\* Inputs: reference assets, usage files, resources.

V01 == <<"0", ".", "1">>

RefBody ==
    YMap(<<KV("aws_x.example",
              YMap(<<KV("a", YInt(0, "count")),
                     KV("b", YStr("txt", "label")),
                     KV("g", YMap(<<KV("b", YFloat(0, "")), KV("c", YStr("z", ""))>>, "group"))>>,
                   "")),
           KV("aws_y.example",
              YMap(<<KV("c", YFloat(0, "")), KV("l", YSeq(<< >>, ""))>>, ""))>>, "")

RefFull == UsageFile(V01, RefBody)

\* Two entries of one resource type.
RefDup ==
    UsageFile(V01,
        YMap(<<KV("aws_x.example", YMap(<<KV("a", YInt(0, "first")), KV("b", YStr("one", ""))>>, "")),
               KV("aws_x.other", YMap(<<KV("b", YStr("two", "")), KV("c", YFloat(0, ""))>>, ""))>>,
             ""))

RefEmpty == UsageFile(V01, YMap(<< >>, ""))

RefBadVersion == UsageFile(<<"0", ".", "2">>, RefBody)

\* A resource whose mapping has a key with no value.
RefOdd ==
    UsageFile(V01, YMap(<<KV("aws_x.example", YOddMap(<<KV("a", YInt(0, ""))>>, "b"))>>, ""))

Assets == {NoAsset, RefFull, RefDup, RefEmpty, RefBadVersion, RefOdd}

FileGoodBody ==
    YMap(<<KV("aws_x.a",
              YMap(<<KV("a", YInt(4, "")), KV("b", YStr("u", "")),
                     KV("g", YMap(<<KV("b", YFloat(3, ""))>>, ""))>>, "")),
           KV("aws_y.c",
              YMap(<<KV("c", YInt(3, "")), KV("l", YSeq(<<YStr("p", ""), YStr("q", "")>>, ""))>>,
                   "")),
           KV("x",
              YMap(<<KV("f", YFloat(5, "")), KV("l", YSeq(<<YStr("p", "")>>, "")),
                     KV("g", YMap(<<KV("c", YInt(2, ""))>>, ""))>>, ""))>>, "")

\* Values of another type than the schema's, a null, a wildcard key.
FileTypesBody ==
    YMap(<<KV("aws_x.a", YMap(<<KV("a", YStr("7", "")), KV("b", YInt(5, ""))>>, "")),
           KV("module.m.aws_x.d", YMap(<<KV("a", YFloat(3, "")), KV("g", YInt(1, ""))>>, "")),
           KV("aws_x.b",
              YMap(<<KV("a", YNull("")), KV("k", YBool(TRUE, "")),
                     KV("d[*].s", YInt(4, ""))>>, ""))>>, "")

GoodFiles ==
    {NoFile, UsageFile(V01, FileGoodBody), UsageFile(V01, FileTypesBody),
     UsageFile(V01, YNull(""))}

\* The texts of version the version check is tried on.
Versions ==
    {<<"0", ".", "1">>, <<"v", "0", ".", "1">>, <<"0", ".", "2">>, <<"0", ".", "0">>,
     << >>, <<"a", "b", "c">>, <<"0", ".", "1", ".", "0">>, <<"0", ".", "1", ".", "1">>,
     <<"1">>, <<"0">>, <<"0", ".", "1", ".", "0", "-", "r", "c">>,
     <<"0", ".", "1", ".", "0", "+", "b">>, <<"0", ".", "1", "-", "r", "c">>,
     <<"0", "0", ".", "1">>, <<"0", ".", "0", "1">>, <<"V", "0", ".", "1">>,
     <<"v">>, <<"0", ".">>, <<"0", ".", "1", "0">>}

VersionFiles == {UsageFile(v, FileGoodBody) : v \in Versions}

DeclaredX ==
    ItemsV(<<Item("a", Int64, IntV(5), Nil, "declared"),
             Item("k", Int64, IntV(1), Nil, ""),
             Item("d[0].s", Int64, IntV(0), Nil, "")>>)

DeclaredGroup ==
    ItemsV(<<Item("g", Items,
                  ItemsV(<<Item("b", String, StrV("d"), Nil, ""),
                           Item("c", Int64, IntV(2), Nil, "")>>), Nil, ""),
             Item("l", StringArray, StrsV(<<"m">>), Nil, ""),
             Item("f", Float64, FloatV(3), Nil, "")>>)

WritesX == [k \in {"a"} |-> IntV(9)]
WritesY == [k \in {"c", "l"} |-> IF k = "c" THEN FloatV(5) ELSE StrsV(<<"w">>)]

Candidates ==
    {Resource("aws_x.a", Nil, FALSE, FALSE, EmptyMap),
     Resource("aws_x.b", DeclaredX, TRUE, FALSE, WritesX),
     Resource("aws_x.b", DeclaredX, TRUE, TRUE, WritesX),
     Resource("aws_y.c", Nil, TRUE, FALSE, WritesY),
     Resource("aws_y.c", Nil, TRUE, TRUE, EmptyMap),
     Resource("module.m.aws_x.d", Nil, FALSE, FALSE, EmptyMap),
     Resource("noname", Nil, TRUE, FALSE, WritesX),
     Resource("aws_z.e", Nil, TRUE, TRUE, EmptyMap),
     Resource("x", DeclaredGroup, FALSE, FALSE, EmptyMap)}

\* The lists of at most n resources with different addresses.
Extensions(l) ==
    {Append(l, c) : c \in {x \in Candidates : \A i \in 1..Len(l) : l[i].Name # x.Name}}

RECURSIVE ResourceLists(_)
ResourceLists(n) ==
    IF n = 0 THEN {<< >>}
    ELSE LET shorter == ResourceLists(n - 1)
         IN shorter \cup UNION {Extensions(l) : l \in {x \in shorter : Len(x) = n - 1}}

----------------------------------------------------------------------------
\* The program: LoadFromFile, then SyncUsageData, resource by resource, and
\* again from the file the sync wrote.

Init ==
    /\ rev \in {"A", "B"}
    /\ pc = "start"
    /\ usageFilePath \in {"", "usage.yml"}
    /\ resources \in ResourceLists(MaxResources)
    /\ \/ file \in GoodFiles /\ refAsset \in Assets
       \/ file \in VersionFiles /\ refAsset = RefFull /\ Len(resources) <= 1
    /\ usageFilePath = "" => (file = NoFile /\ refAsset = RefFull)
    /\ existing = EmptyMap
    /\ loadErr = "nil"
    /\ refSchema = EmptyMap
    /\ idx = 1
    /\ syncResult = EmptySyncResult
    /\ usages = << >>
    /\ calls = << >>
    /\ ret = [result |-> Nil, err |-> "nil"]
    /\ run = 0
    /\ firstFile = NoFile
    /\ arg = Nil
    /\ res = Nil

\* LoadFromFile(usageFilePath, createIfNotExisting)
LoadFromFile ==
    /\ pc = "start" \/ (pc = "synced" /\ run < MaxRuns)
    /\ \E createIfNotExisting \in BOOLEAN :
       \E onDisk \in {IF IsNoFile(file) /\ createIfNotExisting THEN SkeletonFile ELSE file} :
       \E loaded \in {IF IsNoFile(onDisk) THEN [usageData |-> EmptyMap, err |-> "nil"]
                      ELSE IF rev = "A" THEN LoadedA(onDisk) ELSE LoadedB(onDisk)} :
            IF usageFilePath = ""
            THEN /\ existing' = EmptyMap /\ loadErr' = "nil" /\ pc' = "loaded"
                 /\ UNCHANGED file
            ELSE IF IsNoFile(onDisk)
            THEN /\ existing' = EmptyMap /\ loadErr' = "Error reading usage file"
                 /\ pc' = "loadFailed" /\ UNCHANGED file
            ELSE /\ file' = onDisk
                 /\ existing' = loaded.usageData
                 /\ loadErr' = loaded.err
                 /\ pc' = (IF loaded.err = "nil" THEN "loaded" ELSE "loadFailed")
    /\ run' = run + 1
    /\ UNCHANGED <<rev, usageFilePath, resources, refAsset, refSchema, idx, syncResult,
                   usages, calls, ret, firstFile, arg, res>>

\* SyncUsageData up to the loop over the resources (rev B).
SyncBeginB ==
    /\ rev = "B" /\ pc = "loaded"
    /\ \E l \in {loadUsageSchema(refAsset)} :
          IF usageFilePath = ""
          THEN /\ ret' = [result |-> Nil, err |-> "nil"] /\ pc' = "done"
               /\ UNCHANGED refSchema
          ELSE IF l.err # "nil"
          THEN /\ ret' = [result |-> Nil, err |-> l.err] /\ pc' = "fatal"
               /\ UNCHANGED refSchema
          ELSE /\ refSchema' = l.usageSchema /\ pc' = "loop" /\ UNCHANGED ret
    /\ idx' = 1
    /\ syncResult' = EmptySyncResult
    /\ usages' = EmptyMap
    /\ calls' = << >>
    /\ UNCHANGED <<rev, usageFilePath, resources, refAsset, file, existing, loadErr, run,
                   firstFile, arg, res>>

\* One turn of the loop of syncResourcesUsage (rev B).
SyncResourceB ==
    /\ rev = "B" /\ pc = "loop" /\ idx <= Len(resources)
    /\ \E st \in {SyncOneB(resources[idx], refSchema, existing,
                            [syncResult |-> syncResult, usages |-> usages,
                             calls |-> calls])} :
          /\ syncResult' = st.syncResult
          /\ usages' = st.usages
          /\ calls' = st.calls
    /\ idx' = idx + 1
    /\ UNCHANGED <<rev, pc, usageFilePath, resources, refAsset, file, existing, loadErr,
                   refSchema, ret, run, firstFile, arg, res>>

\* The end of SyncUsageData: the result is sorted, marshalled and written.
WriteB ==
    /\ rev = "B" /\ pc = "loop" /\ idx > Len(resources)
    /\ \E written \in {WrittenFileB(usages)} :
          /\ file' = written
          /\ firstFile' = IF run = 1 THEN written ELSE firstFile
    /\ ret' = [result |-> syncResult, err |-> "nil"]
    /\ pc' = "synced"
    /\ UNCHANGED <<rev, usageFilePath, resources, refAsset, existing, loadErr, refSchema,
                   idx, syncResult, usages, calls, run, arg, res>>

\* SyncUsageData up to the loop over the resources (rev A).
SyncBeginA ==
    /\ rev = "A" /\ pc = "loaded"
    /\ \E l \in {loadReferenceUsageSchema(refAsset)} :
          IF usageFilePath = ""
          THEN /\ ret' = [result |-> Nil, err |-> "nil"] /\ pc' = "done"
          ELSE IF l.err # "nil"
          THEN /\ ret' = [result |-> Nil, err |-> l.err] /\ pc' = "fatal"
          ELSE /\ pc' = (IF l.panic THEN "panic" ELSE "loop") /\ UNCHANGED ret
    /\ refSchema' = EmptyMap
    /\ idx' = 1
    /\ syncResult' = EmptySyncResult
    /\ usages' = << >>
    /\ calls' = << >>
    /\ UNCHANGED <<rev, usageFilePath, resources, refAsset, file, existing, loadErr, run,
                   firstFile, arg, res>>

\* One turn of the loop of syncResourcesUsage (rev A).
SyncResourceA ==
    /\ rev = "A" /\ pc = "loop" /\ idx <= Len(resources)
    /\ \E st \in {SyncOneA(resources[idx], refSchema, existing,
                            [syncResult |-> syncResult, usages |-> usages,
                             calls |-> calls, panic |-> FALSE])} :
          /\ syncResult' = st.syncResult
          /\ usages' = st.usages
          /\ calls' = st.calls
          /\ pc' = (IF st.panic THEN "panic" ELSE pc)
    /\ idx' = idx + 1
    /\ UNCHANGED <<rev, usageFilePath, resources, refAsset, file, existing, loadErr,
                   refSchema, ret, run, firstFile, arg, res>>

WriteA ==
    /\ rev = "A" /\ pc = "loop" /\ idx > Len(resources)
    /\ \E written \in {WrittenFileA(usages)} :
          /\ file' = written
          /\ firstFile' = IF run = 1 THEN written ELSE firstFile
    /\ ret' = [result |-> syncResult, err |-> "nil"]
    /\ pc' = "synced"
    /\ UNCHANGED <<rev, usageFilePath, resources, refAsset, existing, loadErr, refSchema,
                   idx, syncResult, usages, calls, run, arg, res>>

Next ==
    \/ LoadFromFile
    \/ SyncBeginB
    \/ SyncResourceB
    \/ WriteB
    \/ SyncBeginA
    \/ SyncResourceA
    \/ WriteA

Spec == Init /\ [][Next]_vars

----------------------------------------------------------------------------
\* rev A: the whole loop over the resources rs; a panic ends it.
RECURSIVE syncResourcesUsageA(_, _, _, _)
syncResourcesUsageA(rs, schemas, existingUsageData, st) ==
    IF rs = << >> \/ st.panic THEN st
    ELSE syncResourcesUsageA(Tail(rs), schemas, existingUsageData,
                             SyncOneA(Head(rs), schemas, existingUsageData, st))

\* What a run of the loop over rs ends with, in the revision and with the
\* reference schema and the usage data of the current run.
RunOf(rs) ==
    IF rev = "B"
    THEN syncResourcesUsageB(rs, refSchema, existing,
             [syncResult |-> EmptySyncResult, usages |-> EmptyMap, calls |-> << >>])
    ELSE syncResourcesUsageA(rs, refSchema, existing,
             [syncResult |-> EmptySyncResult, usages |-> << >>, calls |-> << >>,
              panic |-> FALSE])

\* The file a run that ended with st writes.
FileOf(st) == IF rev = "B" THEN WrittenFileB(st.usages) ELSE WrittenFileA(st.usages)

\* The nodes a usage file holds under a resource address (none or one).
NodesOf(f, name) ==
    IF IsNoFile(f) \/ ~IsYMap(f.ResourceUsage) THEN {}
    ELSE {f.ResourceUsage.ymap[i].v :
            i \in {j \in 1..Len(f.ResourceUsage.ymap) : f.ResourceUsage.ymap[j].k = name}}

----------------------------------------------------------------------------
\* Properties of the sync.

\* The addresses of the invocations of EstimateUsage that returned an error.
Failing(log) == {log[i].Name : i \in {j \in 1..Len(log) : log[j].err # "nil"}}

\* C1: once the sync has processed the resources, the keys of
\* SyncResult.EstimationErrors are exactly the addresses of the resources whose
\* EstimateUsage callback returned an error, each with the error it returned:
\* no entry for a callback that succeeded or for a resource without callback.
EstimationErrorsExact ==
    pc = "synced" =>
        /\ DOMAIN ret.result.EstimationErrors = Failing(calls)
        /\ \A i \in 1..Len(calls) :
              calls[i].err # "nil" => ret.result.EstimationErrors[calls[i].Name] = calls[i].err
        /\ \A i \in 1..Len(resources) :
              (~resources[i].HasEstimate \/ ~resources[i].Err)
                  => resources[i].Name \notin DOMAIN ret.result.EstimationErrors

\* A sync of two resources, one callback failed and one succeeded.
EstimationErrorsWitness ==
    /\ pc = "synced"
    /\ Len(calls) = 2
    /\ calls[1].err # "nil"
    /\ calls[2].err = "nil"
    /\ DOMAIN ret.result.EstimationErrors = {calls[1].Name}

\* The resources other than the i-th have in the written file what they have
\* in the file of the run alt, and as many resources were processed.
OthersAgree(i, alt) ==
    /\ ret.result.ResourceCount = alt.syncResult.ResourceCount
    /\ ret.result.EstimationCount = alt.syncResult.EstimationCount
    /\ \A j \in 1..Len(resources) :
          j # i => NodesOf(file, resources[j].Name) = NodesOf(FileOf(alt), resources[j].Name)

\* C2: when the callback of one resource returns an error, the sync still
\* processes the other resources, writes the file and returns a nil error, and
\* the other resources have in the file what they have in the run where that
\* callback succeeds.
FailureIsolated ==
    pc = "synced" =>
        /\ ret.err = "nil"
        /\ ~IsNoFile(file)
        /\ \A i \in 1..Len(resources) :
              (resources[i].HasEstimate /\ resources[i].Err)
                  => OthersAgree(i, RunOf([resources EXCEPT ![i].Err = FALSE]))

\* The second callback failed after the first resource's usage was resolved,
\* and the file holds the first resource's usage.
FailureIsolatedWitness ==
    /\ pc = "synced"
    /\ Len(resources) = 2
    /\ resources[2].Name \in Failing(calls)
    /\ resources[1].Name \notin Failing(calls)
    /\ \E n \in NodesOf(file, resources[1].Name) : IsYMap(n) /\ Len(n.ymap) > 0

\* Whether the JSON value r is a concrete value of the type t, and then which.
IsOfType(r, t) ==
    CASE t = Int64 -> IsGNum(r) /\ r.gnum % 2 = 0
      [] t = Float64 -> IsGNum(r)
      [] t = String -> IsGStr(r)
      [] t = StringArray -> IsGArr(r) /\ \A i \in 1..Len(r.garr) : IsGStr(r.garr[i])
      [] OTHER -> FALSE

ValueOfType(r, t) ==
    CASE t = Int64 -> IntV(r.gnum \div 2)
      [] t = Float64 -> FloatV(r.gnum)
      [] t = String -> StrV(r.gstr)
      [] t = StringArray -> StrsV([i \in 1..Len(r.garr) |-> r.garr[i].gstr])

\* The items of the schema the sync resolves a resource against, as the loop
\* holds them: in rev B the declared or else the reference schema, in rev A
\* the merged list of the resource's entry.
MergedSchema(resource) ==
    IF rev = "B"
    THEN IF ResourceUSchema(resource, refSchema).skip THEN << >>
         ELSE ResourceUSchema(resource, refSchema).schema
    ELSE IF \E i \in 1..Len(usages) : usages[i].Key = resource.Name
         THEN (CHOOSE e \in {usages[i] : i \in 1..Len(usages)} : e.Key = resource.Name).Items
         ELSE << >>

\* The value a resource's attribute ends the sync with, at the top level (in
\* rev B the entry of the resolved map, in rev A the item's Value).
ItemValue(items, key) ==
    IF \E i \in 1..Len(items) : items[i].Key = key
    THEN (CHOOSE e \in {items[i] : i \in 1..Len(items)} : e.Key = key).Value
    ELSE Nil

Resolved(resource, key) ==
    IF rev = "B"
    THEN IF resource.Name \in DOMAIN usages
         THEN MapGet(usages[resource.Name].map, key, Nil)
         ELSE Nil
    ELSE ItemValue(MergedSchema(resource), key)

\* The JSON attributes the loaded usage data holds for a resource.
ExistingAttributes(resource) ==
    IF rev = "B" /\ resource.Name \in DOMAIN existing
    THEN existing[resource.Name].Attributes
    ELSE EmptyMap

\* The children of a group item keep the existing values of their types.
ChildrenKept(children, attrs, resolved) ==
    \A j \in 1..Len(children) :
        (/\ children[j].Key \in DOMAIN attrs
         /\ IsOfType(attrs[children[j].Key], children[j].ValueType))
        => /\ IsMap(resolved)
           /\ children[j].Key \in DOMAIN resolved.map
           /\ resolved.map[children[j].Key]
                = ValueOfType(attrs[children[j].Key], children[j].ValueType)

ItemKept(item, attrs, resolved) ==
    /\ (item.Key \in DOMAIN attrs /\ IsOfType(attrs[item.Key], item.ValueType))
          => resolved = ValueOfType(attrs[item.Key], item.ValueType)
    /\ (item.ValueType = Items /\ item.Key \in DOMAIN attrs /\ IsGObj(attrs[item.Key]))
          => ChildrenKept(Children(item.DefaultValue), attrs[item.Key].gobj, resolved)

SchemaKept(resource, schema, attrs) ==
    \A j \in 1..Len(schema) : ItemKept(schema[j], attrs, Resolved(resource, schema[j].Key))

\* The existing-value overlay as far as the syncs that end show it: for a
\* resource with no EstimateUsage callback, every attribute of the schema the
\* loop holds for it, for which the loaded usage data holds a concrete value of
\* the attribute's type, ends the sync with that value.  In rev A the list the
\* loop holds never has an attribute.
ExistingValueKept ==
    pc = "synced" =>
        \A i \in 1..Len(resources) :
            ~resources[i].HasEstimate
                => SchemaKept(resources[i], MergedSchema(resources[i]),
                              ExistingAttributes(resources[i]))

\* aws_x.a has no callback; the file held a: 4 for its Int attribute whose
\* default is 0, and a value for the Float child of its group; x has none
\* either, and the file held a list for its StringList attribute.
ExistingValueWitness ==
    /\ pc = "synced"
    /\ \E i \in 1..Len(resources) :
          /\ resources[i].Name = "aws_x.a"
          /\ ~resources[i].HasEstimate
          /\ "a" \in DOMAIN ExistingAttributes(resources[i])
          /\ ExistingAttributes(resources[i])["a"] = GNum(8)
          /\ Resolved(resources[i], "a") = IntV(4)
          /\ Resolved(resources[i], "g") = MapV([k \in {"b", "c"} |->
                                                   IF k = "b" THEN FloatV(3) ELSE StrV("z")])
    /\ \E i \in 1..Len(resources) :
          /\ resources[i].Name = "x"
          /\ Resolved(resources[i], "l") = StrsV(<<"p">>)
          /\ Resolved(resources[i], "f") = FloatV(5)

\* The JSON attributes the usage file on disk holds for a resource.
FileAttributes(resource) ==
    IF NodesOf(file, resource.Name) = {} THEN EmptyMap
    ELSE ParseAttributes(Decode(CHOOSE n \in NodesOf(file, resource.Name) : TRUE))

\* The attributes of schema for which attrs holds a value of their type: the
\* run has not crashed and they have that value.
SchemaOverlaid(resource, schema, attrs) ==
    \A j \in 1..Len(schema) :
        (schema[j].Key \in DOMAIN attrs /\ IsOfType(attrs[schema[j].Key], schema[j].ValueType))
            => /\ pc # "panic"
               /\ ItemKept(schema[j], attrs, Resolved(resource, schema[j].Key))

\* C3: for a resource with no EstimateUsage callback, every attribute its
\* UsageSchema declares, for which the usage file that was loaded holds a
\* concrete value of the attribute's type, has that value once the loop has
\* handled the resource (the file is still the loaded one then): the run has
\* not crashed, the value is not absent and not the default.
ExistingValueOverlaid ==
    (pc \in {"loop", "panic"} /\ loadErr = "nil") =>
        \A i \in 1..Len(resources) :
            (i < idx /\ ~resources[i].HasEstimate)
                => SchemaOverlaid(resources[i], Children(resources[i].UsageSchema),
                                  FileAttributes(resources[i]))

\* The resource type of an address: its segment before the last.
TypeOf(resource) ==
    IF Len(Split(resource.Name)) < 2 THEN ""
    ELSE Split(resource.Name)[Len(Split(resource.Name)) - 1]

\* The entries of the reference file for a resource type.
ReferenceEntries(type) ==
    IF IsNoAsset(refAsset) \/ ~IsYMap(refAsset.ResourceUsage) THEN {}
    ELSE {p \in {refAsset.ResourceUsage.ymap[i] : i \in 1..Len(refAsset.ResourceUsage.ymap)} :
            Split(p.k)[1] = type /\ IsYMap(p.v)}

\* The keys of the tree the sync holds for a resource.
TreeKeys(resource) ==
    IF rev = "B"
    THEN IF resource.Name \in DOMAIN usages THEN DOMAIN usages[resource.Name].map ELSE {}
    ELSE {MergedSchema(resource)[j].Key : j \in 1..Len(MergedSchema(resource))}

\* The declared item of a key, if the key is declared.
DeclaredItems(resource, key) ==
    {it \in {Children(resource.UsageSchema)[j] : j \in 1..Len(Children(resource.UsageSchema))} :
        it.Key = key}

\* The tree carries the declared metadata of a key: in rev A the item's type,
\* default and description; in rev B, whose tree is a map of values, the
\* declared default wherever neither the file nor the callback gave a value.
CarriesDeclared(resource, it) ==
    IF rev = "B"
    THEN (/\ it.ValueType # Items
          /\ it.Key \notin DOMAIN resource.Writes
          /\ it.Key \notin DOMAIN ExistingAttributes(resource))
            => Resolved(resource, it.Key) = it.DefaultValue
    ELSE \E j \in 1..Len(MergedSchema(resource)) :
            /\ MergedSchema(resource)[j].Key = it.Key
            /\ MergedSchema(resource)[j].ValueType = it.ValueType
            /\ MergedSchema(resource)[j].DefaultValue = it.DefaultValue
            /\ MergedSchema(resource)[j].Description = it.Description

ReferenceAndDeclared(resource, entry) ==
    \A j \in 1..Len(entry.v.ymap) :
        /\ pc # "panic"
        /\ entry.v.ymap[j].k \in TreeKeys(resource)
        /\ \A it \in DeclaredItems(resource, entry.v.ymap[j].k) : CarriesDeclared(resource, it)

\* C4: once the loop has handled a resource that declares a UsageSchema and
\* whose type has a reference schema, every key of the reference schema is in
\* the resource's tree, and a key declared in both carries the declared
\* metadata.
DeclaredOverReference ==
    pc \in {"loop", "synced", "panic"} =>
        \A i \in 1..Len(resources) :
            (i < idx /\ ~IsNil(resources[i].UsageSchema))
                => \A entry \in ReferenceEntries(TypeOf(resources[i])) :
                      Cardinality(ReferenceEntries(TypeOf(resources[i]))) = 1
                          => ReferenceAndDeclared(resources[i], entry)

----------------------------------------------------------------------------
\* mergeUsageSchemaItems and syncResourceUsageWithExisting on their own: the
\* merge of a source list into a destination list, once and then again, and
\* the value sync of a list after the callback has written into its map.

ChildAB ==
    <<Item("a", Int64, IntV(1), Nil, "reference"), Item("b", String, StrV("r"), Nil, "reference")>>

ChildBC ==
    <<Item("b", String, StrV("d"), Nil, "declared"), Item("c", Int64, IntV(2), Nil, "declared")>>

ChildB == <<Item("b", String, StrV("d"), Nil, "declared")>>

LeafItems ==
    {Item("a", Int64, IntV(1), Nil, "reference"),
     Item("a", Int64, IntV(5), IntV(7), "declared"),
     Item("b", String, StrV("r"), Nil, ""),
     Item("b", Float64, FloatV(3), Nil, "declared"),
     Item("c", StringArray, StrsV(<<"m">>), Nil, "")}

GroupItems ==
    {Item("g", Items, ItemsV(ChildAB), ItemsV(<< >>), "reference"),
     Item("g", Items, ItemsV(ChildBC), ItemsV(<< >>), "declared"),
     Item("g", Items, ItemsV(ChildB), ItemsV(<< >>), "declared"),
     Item("g", Items, ItemsV(ChildBC), Nil, "declared")}

\* The lists of at most n items with different keys.
ItemExtensions(l) ==
    {Append(l, c) : c \in {x \in LeafItems \cup GroupItems :
                              \A i \in 1..Len(l) : l[i].Key # x.Key}}

RECURSIVE ItemLists(_)
ItemLists(n) ==
    IF n = 0 THEN {<< >>}
    ELSE LET shorter == ItemLists(n - 1)
         IN shorter \cup UNION {ItemExtensions(l) : l \in {x \in shorter : Len(x) = n - 1}}

\* The source lists that hold one key twice.
RepeatingLists ==
    {l \in (LeafItems \cup GroupItems) \X (LeafItems \cup GroupItems) : l[1].Key = l[2].Key}

\* Items that hold a concrete Value, one of each ValueType.
ValuedItems ==
    {Item("a", Int64, IntV(1), IntV(7), ""),
     Item("b", String, StrV("r"), StrV("u"), ""),
     Item("c", StringArray, StrsV(<<"m">>), StrsV(<<"p">>), ""),
     Item("f", Float64, FloatV(3), FloatV(5), ""),
     Item("g", Items, ItemsV(ChildB), ItemsV(<<Item("b", String, StrV("d"), StrV("u"), "")>>), "")}

KeysIn(l) == {l[i].Key : i \in 1..Len(l)}

\* The lists of at most n of them with different keys.
RECURSIVE ValuedLists(_)
ValuedLists(n) ==
    IF n = 0 THEN {<< >>}
    ELSE LET shorter == ValuedLists(n - 1)
         IN shorter \cup
            UNION {{Append(l, c) : c \in {x \in ValuedItems : x.Key \notin KeysIn(l)}} :
                     l \in {x \in shorter : Len(x) = n - 1}}

\* The usage data handed to syncResourceUsageWithExisting: none, an empty
\* bag, and bags with values for some of the keys.
SuppliedData ==
    {NoUsageData,
     NewUsageData("r", EmptyMap),
     NewUsageData("r", [k \in {"a"} |-> GNum(18)]),
     NewUsageData("r", [k \in {"b", "f"} |-> IF k = "b" THEN GStr("w") ELSE GNum(3)]),
     NewUsageData("r", [k \in {"c"} |-> GNull])}

\* What a callback writes into the map it is passed.
CallbackWrites ==
    {EmptyMap,
     [k \in {"a"} |-> IntV(9)],
     [k \in {"b"} |-> StrV("w")],
     [k \in {"b"} |-> FloatV(5)],
     [k \in {"c"} |-> StrsV(<<"w">>)],
     [k \in {"g"} |-> MapV([c \in {"b"} |-> StrV("w")])],
     [k \in {"a", "b"} |-> IF k = "a" THEN IntV(9) ELSE StrV("w")]}

InitItems ==
    /\ rev = "A"
    /\ pc = "ready"
    /\ \/ arg \in {[op |-> "merge", dest |-> d, src |-> s] :
                     d \in ItemLists(MaxItems), s \in ItemLists(MaxItems) \cup RepeatingLists}
       \/ arg \in {[op |-> "sync", items |-> d, writes |-> w] :
                     d \in ItemLists(MaxItems), w \in CallbackWrites}
       \/ arg \in {[op |-> "render", items |-> d] : d \in ItemLists(MaxItems)}
       \/ arg \in {[op |-> "existing", items |-> d, data |-> u] :
                     d \in ValuedLists(MaxItems), u \in SuppliedData}
    /\ res = Nil
    /\ usageFilePath = "usage.yml"
    /\ resources = << >>
    /\ refAsset = NoAsset
    /\ file = NoFile
    /\ existing = EmptyMap
    /\ loadErr = "nil"
    /\ refSchema = EmptyMap
    /\ idx = 1
    /\ syncResult = EmptySyncResult
    /\ usages = << >>
    /\ calls = << >>
    /\ ret = [result |-> Nil, err |-> "nil"]
    /\ run = 0
    /\ firstFile = NoFile

\* mergeUsageSchemaItems(dest, src)
Merge ==
    /\ pc = "ready" /\ arg.op = "merge"
    /\ \E m \in {mergeUsageSchemaItems(arg.dest, arg.src)} :
          /\ res' = [first |-> m]
          /\ pc' = (IF m.panic THEN "panic" ELSE "merged")
    /\ UNCHANGED <<rev, usageFilePath, resources, refAsset, file, existing, loadErr,
                   refSchema, idx, syncResult, usages, calls, ret, run, firstFile, arg>>

\* mergeUsageSchemaItems(dest, src) once more, on the list the first call left.
MergeAgain ==
    /\ pc = "merged"
    /\ \E m \in {mergeUsageSchemaItems(res.first.dest, arg.src)} :
          /\ res' = [first |-> res.first, second |-> m]
          /\ pc' = (IF m.panic THEN "panic" ELSE "merged2")
    /\ UNCHANGED <<rev, usageFilePath, resources, refAsset, file, existing, loadErr,
                   refSchema, idx, syncResult, usages, calls, ret, run, firstFile, arg>>

\* The callback writes into resourceUsage.Map(), and the list is synced with
\* the usage data made of that map (usage_file.go 110-120).
EstimateAndSync ==
    /\ pc = "ready" /\ arg.op = "sync"
    /\ \E est \in {EstimateUsage(Resource("r", Nil, TRUE, FALSE, arg.writes),
                                 ResourceUsageMap(arg.items))} :
          res' = [usage |-> est.usage,
                  items |-> syncResourceUsageWithExisting(arg.items,
                                NewUsageData("r", ParseAttributes(MapV(est.usage))))]
    /\ pc' = "estimated"
    /\ UNCHANGED <<rev, usageFilePath, resources, refAsset, file, existing, loadErr,
                   refSchema, idx, syncResult, usages, calls, ret, run, firstFile, arg>>

\* resourceUsagesToYAMLNode of one resource with the items.
Render ==
    /\ pc = "ready" /\ arg.op = "render"
    /\ res' = [node |-> resourceUsagesToYAMLNode(<<[Key |-> "r", Items |-> arg.items]>>)]
    /\ pc' = "rendered"
    /\ UNCHANGED <<rev, usageFilePath, resources, refAsset, file, existing, loadErr,
                   refSchema, idx, syncResult, usages, calls, ret, run, firstFile, arg>>

\* syncResourceUsageWithExisting(resourceUsage, existing)
SyncWithExisting ==
    /\ pc = "ready" /\ arg.op = "existing"
    /\ res' = [items |-> syncResourceUsageWithExisting(arg.items, arg.data)]
    /\ pc' = "overlaid"
    /\ UNCHANGED <<rev, usageFilePath, resources, refAsset, file, existing, loadErr,
                   refSchema, idx, syncResult, usages, calls, ret, run, firstFile, arg>>

NextItems ==
    \/ Merge
    \/ MergeAgain
    \/ EstimateAndSync
    \/ Render
    \/ SyncWithExisting

SpecItems == InitItems /\ [][NextItems]_vars

KeysOf(items) == {items[i].Key : i \in 1..Len(items)}

\* The last item of a key in a list that has the key.
ItemAt(items, key) ==
    items[CHOOSE i \in 1..Len(items) :
             items[i].Key = key /\ \A j \in (i+1)..Len(items) : items[j].Key # key]

\* Whether both lists have a group under key, each with a list of children.
BothGroups(dest, src, key) ==
    /\ key \in KeysOf(dest) /\ key \in KeysOf(src)
    /\ ItemAt(dest, key).ValueType = Items /\ ItemAt(src, key).ValueType = Items
    /\ IsItems(ItemAt(dest, key).DefaultValue) /\ IsItems(ItemAt(src, key).DefaultValue)

\* The children of merged are those of either side, a child of the source
\* side with the source's metadata.
ChildrenUnited(merged, destChildren, srcChildren) ==
    /\ KeysOf(merged) = KeysOf(destChildren) \cup KeysOf(srcChildren)
    /\ \A k \in KeysOf(srcChildren) :
          /\ ItemAt(merged, k).ValueType = ItemAt(srcChildren, k).ValueType
          /\ ItemAt(merged, k).DefaultValue = ItemAt(srcChildren, k).DefaultValue
          /\ ItemAt(merged, k).Description = ItemAt(srcChildren, k).Description

\* C5: after a group of the destination is merged with the same group of the
\* source, the caller's list holds that group with the children of both, the
\* children of the source with the source's metadata: {a, b} merged with
\* {b, c} gives {a, b, c}.
GroupChildrenUnited ==
    (arg # Nil /\ arg.op = "merge" /\ pc # "ready") =>
        \A key \in KeysOf(arg.src) :
            BothGroups(arg.dest, arg.src, key)
                => /\ ~res.first.panic
                   /\ key \in KeysOf(res.first.dest)
                   /\ IsItems(ItemAt(res.first.dest, key).DefaultValue)
                   /\ ChildrenUnited(Children(ItemAt(res.first.dest, key).DefaultValue),
                                     Children(ItemAt(arg.dest, key).DefaultValue),
                                     Children(ItemAt(arg.src, key).DefaultValue))

IsValueOfType(v, t) ==
    CASE t = Int64 -> IsInt(v)
      [] t = Float64 -> IsFl(v)
      [] t = String -> IsStr(v)
      [] t = StringArray -> IsStrs(v)
      [] OTHER -> FALSE

\* The children of a group that the callback wrote have the written values.
ChildrenWritten(children, written, value) ==
    \A j \in 1..Len(children) :
        (/\ children[j].Key \in DOMAIN written
         /\ IsValueOfType(written[children[j].Key], children[j].ValueType))
        => /\ IsItems(value)
           /\ children[j].Key \in KeysOf(value.items)
           /\ ItemAt(value.items, children[j].Key).Value = written[children[j].Key]

\* The item has the value the callback wrote under its key, a group the
\* values written under the keys of its children.
ItemWritten(item, written, synced) ==
    /\ IsValueOfType(written, item.ValueType) => synced.Value = written
    /\ (item.ValueType = Items /\ IsMap(written))
          => ChildrenWritten(Children(item.DefaultValue), written.map, synced.Value)

\* C7: a concrete value that a succeeding callback writes under an attribute's
\* key in the map it was passed is the attribute's Value after the sync with
\* the estimated data, whatever the attribute's type: an integer, a float, a
\* string, a list of strings, and the children of a group.
CallbackValueFinal ==
    pc = "estimated" =>
        \A i \in 1..Len(arg.items) :
            arg.items[i].Key \in DOMAIN arg.writes
                => ItemWritten(arg.items[i], arg.writes[arg.items[i].Key], res.items[i])

\* The same for the integers, floats and lists of strings alone.
NumbersAndListsFinal ==
    pc = "estimated" =>
        \A i \in 1..Len(arg.items) :
            (/\ arg.items[i].Key \in DOMAIN arg.writes
             /\ arg.items[i].ValueType \in {Int64, Float64, StringArray}
             /\ IsValueOfType(arg.writes[arg.items[i].Key], arg.items[i].ValueType))
                => res.items[i].Value = arg.writes[arg.items[i].Key]

\* The JSON attributes a loaded usage data holds for a resource (rev B).
AttributesIn(loaded, resource) ==
    IF rev = "B" /\ resource.Name \in DOMAIN loaded
    THEN loaded[resource.Name].Attributes
    ELSE EmptyMap

\* The attributes of schema that had only their default when the file was
\* written (no value in the usage data loaded before, none written by the
\* callback) have no concrete value in the usage data loaded afterwards.
UnsetAbsent(resource, schema, before, after) ==
    \A j \in 1..Len(schema) :
        (/\ schema[j].ValueType # Items
         /\ schema[j].Key \notin DOMAIN before
         /\ schema[j].Key \notin DOMAIN resource.Writes)
        => (schema[j].Key \notin DOMAIN after \/ IsGNull(after[schema[j].Key]))

\* C8: an attribute that has no resolved value, only a default, when the sync
\* writes the file is absent from what LoadFromFile loads from the written
\* file: it does not come back as a concrete value equal to the default.
UnsetStaysAbsent ==
    [][(pc = "synced" /\ pc' = "loaded") =>
          \A i \in 1..Len(resources) :
              UnsetAbsent(resources[i], MergedSchema(resources[i]),
                          ExistingAttributes(resources[i]),
                          AttributesIn(existing', resources[i]))]_vars

\* C9: a sync, a load of the file it wrote and a second sync with the same
\* reference file, the same resources and the same callbacks write a second
\* file identical to the first (and so does every sync after it).
SyncIdempotent ==
    (pc = "synced" /\ run >= 2) => file = firstFile

\* A second sync that wrote again the file of the first: two resources, values
\* kept from the file and values written by a callback.
SyncIdempotentWitness ==
    /\ pc = "synced" /\ run = 2
    /\ file = firstFile
    /\ Len(resources) = 2
    /\ Len(calls) > 0
    /\ \A i \in 1..2 :
          \E n \in NodesOf(file, resources[i].Name) : IsYMap(n) /\ Len(n.ymap) > 1

\* The texts of Versions that, with a leading v added where it is missing, are
\* semantic versions equal to 0.1: 0.1 itself, with the v, with the patch
\* number 0 spelled out, and with build metadata, which does not count.
SupportedVersions ==
    {<<"0", ".", "1">>, <<"v", "0", ".", "1">>, <<"0", ".", "1", ".", "0">>,
     <<"0", ".", "1", ".", "0", "+", "b">>}

\* C10: LoadFromFile of an existing usage file succeeds only if the file's
\* version, with a leading v added where it is missing, is a semantic version
\* with 0.1 <= version <= 0.1; for any other version parseYAML returns the
\* version error, LoadFromFile returns an error and no usage data, and the file
\* is left as it was.
VersionGate ==
    [][(pc \in {"start", "synced"} /\ pc' \in {"loaded", "loadFailed"}
          /\ usageFilePath # "" /\ ~IsNoFile(file)) =>
          /\ pc' = "loaded" => file.Version \in SupportedVersions
          /\ file.Version \notin SupportedVersions =>
                /\ parseYAML(file).err = "Invalid usage file version"
                /\ pc' = "loadFailed"
                /\ loadErr' = "Error parsing usage file"
                /\ existing' = EmptyMap
                /\ file' = file]_vars

\* A file of version 0.2 was refused and is still on disk; nothing was loaded.
VersionGateWitness ==
    /\ pc = "loadFailed"
    /\ ~IsNoFile(file)
    /\ file.Version = <<"0", ".", "2">>
    /\ file.ResourceUsage = FileGoodBody
    /\ loadErr = "Error parsing usage file"
    /\ existing = EmptyMap

----------------------------------------------------------------------------
\* Fatal errors of SyncUsageData.

\* The reference assets that are missing, of an unsupported version, or malformed.
BadReferences == {NoAsset, RefBadVersion, RefOdd}

\* C11: a SyncUsageData that is given a path and a reference asset that is
\* missing, malformed or of an unsupported version ends with the error and a
\* nil SyncResult, and whenever it ends so the usage file is as it was (not
\* created, not modified) and no EstimateUsage callback has run.
FatalLeavesNothing ==
    [][(pc = "loaded" /\ pc' # "loaded" /\ usageFilePath # "")
       => /\ refAsset \in BadReferences => pc' = "fatal"
          /\ pc' = "fatal" => /\ ret'.result = Nil
                              /\ ret'.err # "nil"
                              /\ file' = file
                              /\ calls' = << >>]_vars

\* A sync of two resources, the first with a callback, over a file on disk,
\* ended fatally on a malformed reference asset.
FatalWitness ==
    /\ pc = "fatal"
    /\ refAsset = RefOdd
    /\ ~IsNoFile(file)
    /\ Len(resources) = 2
    /\ resources[1].HasEstimate
    /\ ret.result = Nil

----------------------------------------------------------------------------
\* schema.UsageData on its own: a bag of attributes and one accessor applied
\* to it with one key.

\* Most attributes a bag holds.
MaxAttrs == 2

StoredKeys == {"a", "d[0].s", "d[*].s", "d[0].e[1]", "d[0].e[*]", "d[*].e[1]"}

QueryKeys == {"a", "b", "d[0].s", "d[*].s", "d[0].e[1]"}

\* What ParseAttributes can leave under a key: JSON null, numbers 2 and 1.5,
\* the strings "7" and "u", true, a list and an object.
StoredResults ==
    {GNull, GNum(4), GNum(3), GStr("7"), GStr("u"), [gbool |-> TRUE],
     [garr |-> <<GStr("p"), GNum(4)>>], [gobj |-> [k \in {"c"} |-> GNum(2)]]}

\* The bags of at most n attributes.
AttributeBags(n) ==
    UNION {[ks -> StoredResults] : ks \in {S \in SUBSET StoredKeys : Cardinality(S) <= n}}

InitData ==
    /\ rev = "B"
    /\ pc = "ready"
    /\ arg \in {[u |-> NewUsageData("r", attrs), key |-> key] :
                  attrs \in AttributeBags(MaxAttrs), key \in QueryKeys}
    /\ res = Nil
    /\ usageFilePath = "usage.yml"
    /\ resources = << >>
    /\ refAsset = NoAsset
    /\ file = NoFile
    /\ existing = EmptyMap
    /\ loadErr = "nil"
    /\ refSchema = EmptyMap
    /\ idx = 1
    /\ syncResult = EmptySyncResult
    /\ usages = << >>
    /\ calls = << >>
    /\ ret = [result |-> Nil, err |-> "nil"]
    /\ run = 0
    /\ firstFile = NoFile

\* u.Get(key)
CallGet ==
    /\ pc = "ready"
    /\ res' = [op |-> "Get", value |-> Get(arg.u, arg.key)]
    /\ pc' = "got"
    /\ UNCHANGED <<rev, usageFilePath, resources, refAsset, file, existing, loadErr,
                   refSchema, idx, syncResult, usages, calls, ret, run, firstFile, arg>>

\* u.GetInt(key)
CallGetInt ==
    /\ pc = "ready"
    /\ res' = [op |-> "GetInt", value |-> GetInt(arg.u, arg.key)]
    /\ pc' = "got"
    /\ UNCHANGED <<rev, usageFilePath, resources, refAsset, file, existing, loadErr,
                   refSchema, idx, syncResult, usages, calls, ret, run, firstFile, arg>>

\* u.GetFloat(key)
CallGetFloat ==
    /\ pc = "ready"
    /\ res' = [op |-> "GetFloat", value |-> GetFloat(arg.u, arg.key)]
    /\ pc' = "got"
    /\ UNCHANGED <<rev, usageFilePath, resources, refAsset, file, existing, loadErr,
                   refSchema, idx, syncResult, usages, calls, ret, run, firstFile, arg>>

\* u.GetString(key)
CallGetString ==
    /\ pc = "ready"
    /\ res' = [op |-> "GetString", value |-> GetString(arg.u, arg.key)]
    /\ pc' = "got"
    /\ UNCHANGED <<rev, usageFilePath, resources, refAsset, file, existing, loadErr,
                   refSchema, idx, syncResult, usages, calls, ret, run, firstFile, arg>>

\* u.GetStringArray(key)
CallGetStringArray ==
    /\ pc = "ready"
    /\ res' = [op |-> "GetStringArray", value |-> GetStringArray(arg.u, arg.key)]
    /\ pc' = "got"
    /\ UNCHANGED <<rev, usageFilePath, resources, refAsset, file, existing, loadErr,
                   refSchema, idx, syncResult, usages, calls, ret, run, firstFile, arg>>

NextData ==
    \/ CallGet
    \/ CallGetInt
    \/ CallGetFloat
    \/ CallGetString
    \/ CallGetStringArray

SpecData == InitData /\ [][NextData]_vars

\* The value a bag holds under exactly key: the JSON null of a key with no
\* value is no value, like a missing key.
Stored(u, key) == MapGet(u.Attributes, key, GNull)

\* The keys with a bracketed index, each with its last bracket pair's index
\* replaced by '*'.
LastIndexWildcard ==
    [key \in {"d[0].s", "d[*].s", "d[0].e[1]"} |->
        CASE key = "d[0].s" -> "d[*].s"
          [] key = "d[*].s" -> "d[*].s"
          [] key = "d[0].e[1]" -> "d[0].e[*]"]

\* C12: Get(key) returns the value stored under exactly key whenever there is
\* one; when there is none and key has a bracketed index, it returns what is
\* stored under key with the index of the last bracket pair replaced by '*'
\* (an earlier pair is not rewritten); with neither it returns no value.
GetExactThenWildcard ==
    (pc = "got" /\ res.op = "Get")
    => IF ~IsGNull(Stored(arg.u, arg.key)) THEN res.value = Stored(arg.u, arg.key)
       ELSE IF arg.key \in DOMAIN LastIndexWildcard
       THEN res.value = Stored(arg.u, LastIndexWildcard[arg.key])
       ELSE IsGNull(res.value)

\* d[0].e[1] is not stored, d[0].e[*] and d[*].e[1] are, with different
\* values: Get returned the value of d[0].e[*].
GetWildcardWitness ==
    /\ pc = "got" /\ res.op = "Get"
    /\ arg.key = "d[0].e[1]"
    /\ DOMAIN arg.u.Attributes = {"d[0].e[*]", "d[*].e[1]"}
    /\ arg.u.Attributes["d[0].e[*]"] = GNum(4)
    /\ arg.u.Attributes["d[*].e[1]"] = GStr("u")
    /\ res.value = GNum(4)

\* The exact key and its wildcard are both stored: Get returned the exact one.
GetExactWitness ==
    /\ pc = "got" /\ res.op = "Get"
    /\ arg.key = "d[0].s"
    /\ DOMAIN arg.u.Attributes = {"d[0].s", "d[*].s"}
    /\ arg.u.Attributes["d[0].s"] = GStr("7")
    /\ arg.u.Attributes["d[*].s"] = GNum(4)
    /\ res.value = GStr("7")

----------------------------------------------------------------------------
\* The typed getters on a value of another type.

\* Whether a stored result is of a type the getter can return, read
\* generously: a number (or the text of one) for GetInt and GetFloat, any
\* scalar for GetString, a list of strings for GetStringArray.
IsNumeric(r) == IsGNum(r) \/ (IsGStr(r) /\ IsNumText(r.gstr))

Compatible(op, r) ==
    CASE op = "GetInt" -> IsNumeric(r)
      [] op = "GetFloat" -> IsNumeric(r)
      [] op = "GetString" -> IsGStr(r) \/ IsGNum(r) \/ IsGBool(r)
      [] op = "GetStringArray" ->
           IsGArr(r) /\ \A i \in 1..Len(r.garr) : IsGStr(r.garr[i])
      [] OTHER -> TRUE

\* C13: a typed getter returns nil when the key has no value and when the
\* value stored for it is of a type incompatible with the getter; it never
\* returns a placeholder such as 0 for it.
WrongTypeAbsent ==
    (pc = "got" /\ res.op # "Get")
    => ((IsGNull(Get(arg.u, arg.key)) \/ ~Compatible(res.op, Get(arg.u, arg.key)))
        => IsNil(res.value))

\* The part that holds: a key with no value, exact or wildcard, gives nil,
\* and a value of the getter's type is returned as it is.
MissingKeyAbsent ==
    (pc = "got" /\ res.op # "Get")
    => /\ IsGNull(Get(arg.u, arg.key)) <=> IsNil(res.value)
       /\ (res.op = "GetInt" /\ IsGNum(Get(arg.u, arg.key)))
          => res.value = IntV(Trunc(Get(arg.u, arg.key).gnum))
       /\ (res.op = "GetString" /\ IsGStr(Get(arg.u, arg.key)))
          => res.value = StrV(Get(arg.u, arg.key).gstr)

\* GetInt on a key that holds the string "u" returned a pointer to 0.
WrongTypeZero ==
    /\ pc = "got" /\ res.op = "GetInt"
    /\ arg.key = "a"
    /\ DOMAIN arg.u.Attributes = {"a"}
    /\ arg.u.Attributes["a"] = GStr("u")
    /\ res.value = IntV(0)

----------------------------------------------------------------------------
\* The counters of the SyncResult.

\* The positions of the resources that have an EstimateUsage callback.
WithCallback == {i \in 1..Len(resources) : resources[i].HasEstimate}

\* C14: the SyncResult a sync returns has ResourceCount equal to the number
\* of resources it was given, those with no schema of any kind and those with
\* an address of fewer than two segments included, and EstimationCount equal
\* to the number of them that have an EstimateUsage callback.
CountsAllResources ==
    pc = "synced"
    => /\ ret.result.ResourceCount = Len(resources)
       /\ ret.result.EstimationCount = Cardinality(WithCallback)

\* The part that holds: the sync of usage_file.go 83-128 counts every
\* resource it is given, and neither counter ever exceeds what the claim says.
CountsWithinResources ==
    pc = "synced"
    => /\ ret.result.ResourceCount <= Len(resources)
       /\ ret.result.EstimationCount <= Cardinality(WithCallback)
       /\ rev = "A" => /\ ret.result.ResourceCount = Len(resources)
                       /\ ret.result.EstimationCount = Cardinality(WithCallback)

\* A finished sync of two resources with callbacks, one of them with a
\* one-segment address and no declared schema, counted one resource only.
CountsSkipped ==
    /\ pc = "synced" /\ rev = "B"
    /\ Len(resources) = 2
    /\ resources[1].Name = "noname" /\ resources[1].HasEstimate
    /\ resources[2].Name = "aws_y.c" /\ resources[2].HasEstimate
    /\ refAsset = RefFull
    /\ ret.result.ResourceCount = 1
    /\ ret.result.EstimationCount = 1

----------------------------------------------------------------------------
\* The reference schema by resource type.

\* The entries of a well-formed reference document, in order.
DocumentEntries ==
    IF IsNoAsset(refAsset) \/ ~IsYMap(refAsset.ResourceUsage) THEN << >>
    ELSE refAsset.ResourceUsage.ymap

\* A document key truncated at its first '.'.
TypeOfEntry(key) ==
    CASE key \in {"aws_x.example", "aws_x.other"} -> "aws_x"
      [] key = "aws_y.example" -> "aws_y"
      [] OTHER -> key

\* The attributes the document defines for a type, in order of occurrence:
\* [entry, node] with entry the position of the entry in the document.
RECURSIVE AttributesOfType(_, _)
AttributesOfType(type, i) ==
    IF i > Len(DocumentEntries) THEN << >>
    ELSE (IF TypeOfEntry(DocumentEntries[i].k) = type
          THEN [j \in 1..Len(AttrPairs(DocumentEntries[i].v)) |->
                  [entry |-> i, node |-> AttrPairs(DocumentEntries[i].v)[j]]]
          ELSE << >>) \o AttributesOfType(type, i + 1)

\* The first occurrence of an attribute key among the attributes of a type.
FirstOccurrence(attrs, key) ==
    attrs[CHOOSE n \in 1..Len(attrs) :
             attrs[n].node.k = key /\ \A m \in 1..(n-1) : attrs[m].node.k # key].node

\* The schema of a type holds every attribute key the document defines for
\* the type, each as its first occurrence defines it.
TypeAccumulated(schema, attrs) ==
    \A n \in 1..Len(attrs) :
       \E x \in 1..Len(schema) :
          /\ schema[x].Key = attrs[n].node.k
          /\ schema[x].DefaultValue =
                toSchemaItemB(attrs[n].node.k,
                              FirstOccurrence(attrs, attrs[n].node.k).v).item.DefaultValue

\* C15: the map the reference schema loader returns has, for each document
\* entry, the entry's key truncated at the first '.' as a resource type, and
\* under a type the attributes of all the entries of that type: of a
\* duplicate attribute key the first occurrence, and nothing an earlier entry
\* defined is overwritten or dropped by a later one.
ReferenceAccumulates ==
    pc = "loop"
    => \A i \in 1..Len(DocumentEntries) :
          /\ TypeOfEntry(DocumentEntries[i].k) \in DOMAIN refSchema
          /\ TypeAccumulated(refSchema[TypeOfEntry(DocumentEntries[i].k)],
                             AttributesOfType(TypeOfEntry(DocumentEntries[i].k), 1))

\* The part that holds: the types of the map are the truncated keys, and the
\* last entry of each type is in the map whole.
ReferenceLastEntry ==
    (pc = "loop" /\ rev = "B")
    => /\ DOMAIN refSchema = {TypeOfEntry(DocumentEntries[i].k) : i \in 1..Len(DocumentEntries)}
       /\ \A i \in 1..Len(DocumentEntries) :
             (\A j \in (i+1)..Len(DocumentEntries) :
                 TypeOfEntry(DocumentEntries[j].k) # TypeOfEntry(DocumentEntries[i].k))
             => refSchema[TypeOfEntry(DocumentEntries[i].k)]
                  = ItemsOf(SchemaItemsB(AttrPairs(DocumentEntries[i].v)))

\* The document has aws_x.example {a, b: one} and aws_x.other {b: two, c}:
\* the loaded schema of aws_x is b (default "two") and c only.
ReferenceOverwritten ==
    /\ pc = "loop" /\ rev = "B"
    /\ refAsset = RefDup
    /\ Len(refSchema["aws_x"]) = 2
    /\ refSchema["aws_x"][1].Key = "b"
    /\ refSchema["aws_x"][1].DefaultValue = StrV("two")
    /\ refSchema["aws_x"][2].Key = "c"

----------------------------------------------------------------------------
\* The ValueType of a key across merges.

\* C16: a key that is in the tree, with the ValueType its first source gave
\* it, has the same ValueType after the merge of another source.
ValueTypeFixed ==
    pc \in {"merged", "merged2"}
    => \A key \in KeysOf(arg.dest) :
          ItemAt(res.first.dest, key).ValueType = ItemAt(arg.dest, key).ValueType

\* The part that holds: a merge changes the ValueType of no key that the
\* source does not hold.
ValueTypeOfOthersFixed ==
    pc \in {"merged", "merged2"}
    => \A key \in KeysOf(arg.dest) \ KeysOf(arg.src) :
          ItemAt(res.first.dest, key).ValueType = ItemAt(arg.dest, key).ValueType

\* The tree has b as a String, the merged source declares b as a Float: b is
\* a Float64 in the tree after the merge.
ValueTypeChanged ==
    /\ pc = "merged"
    /\ Len(arg.dest) = 1 /\ Len(arg.src) = 1
    /\ arg.dest[1].Key = "b" /\ arg.dest[1].ValueType = String
    /\ arg.src[1].Key = "b" /\ arg.src[1].ValueType = Float64
    /\ res.first.dest[1].ValueType = Float64

----------------------------------------------------------------------------
\* The keys of a tree.

\* Every key occurs once among the items, and once among the children of
\* each group (those of its DefaultValue and those of its Value).
RECURSIVE UniqueKeys(_)
UniqueKeys(items) ==
    /\ \A i, j \in 1..Len(items) : items[i].Key = items[j].Key => i = j
    /\ \A i \in 1..Len(items) :
          items[i].ValueType = Items
          => /\ UniqueKeys(Children(items[i].DefaultValue))
             /\ UniqueKeys(Children(items[i].Value))

\* C17: after a merge, and after a second one, from a source list that may
\* hold a key twice, every key occurs at most once among the items of the
\* tree and at most once among the children of each group; a merge that
\* ended in a panic leaves the tree so as well.
KeysUnique ==
    /\ pc \in {"merged", "merged2", "panic"} => UniqueKeys(res.first.dest)
    /\ (pc \in {"merged2", "panic"} /\ "second" \in DOMAIN res) => UniqueKeys(res.second.dest)

\* Two merges of a source that holds the key a twice and a group g, into a
\* tree that has a and g: the tree has a and g once, a as the source's last a.
KeysUniqueWitness ==
    /\ pc = "merged2"
    /\ Len(arg.src) = 2 /\ arg.src[1].Key = "a" /\ arg.src[2].Key = "a"
    /\ arg.src[1] # arg.src[2]
    /\ Len(arg.dest) = 2 /\ arg.dest[1].Key = "a" /\ arg.dest[2].Key = "g"
    /\ arg.dest[1].DefaultValue # arg.src[2].DefaultValue
    /\ Len(res.second.dest) = 2
    /\ res.second.dest[1].Key = "a"
    /\ res.second.dest[1].DefaultValue = arg.src[2].DefaultValue
    /\ res.second.dest[2].Key = "g"

----------------------------------------------------------------------------
\* The order of the written document.

\* The orders in which a range over a map with the keys S can give them.
RangeOrders(S) ==
    {q \in [1..Cardinality(S) -> S] : \A i, j \in 1..Cardinality(S) : q[i] = q[j] => i = j}

\* sort.Strings on the list of keys: each key is put before the first
\* greater one.
InsertKey(sorted, k) ==
    LET before == {i \in 1..Len(sorted) : Rank(sorted[i]) <= Rank(k)}
    IN SubSeq(sorted, 1, Cardinality(before)) \o <<k>>
       \o SubSeq(sorted, Cardinality(before) + 1, Len(sorted))

RECURSIVE SortList(_)
SortList(keys) ==
    IF keys = << >> THEN << >>
    ELSE InsertKey(SortList(SubSeq(keys, 1, Len(keys) - 1)), keys[Len(keys)])

\* Whatever order the map and the maps in it are ranged over in, the keys
\* handed on are those of the slice mapToSortedMapSlice gives.
RECURSIVE OrderIndependent(_)
OrderIndependent(input) ==
    /\ \A q \in RangeOrders(DOMAIN input) :
          SortList(q) = [i \in 1..Len(mapToSortedMapSlice(input).slice) |->
                           mapToSortedMapSlice(input).slice[i].Key]
    /\ \A k \in DOMAIN input : IsMap(input[k]) => OrderIndependent(input[k].map)

\* The keys of a mapping node ascend, and so do those of the mappings in it.
RECURSIVE AscendingKeys(_)
AscendingKeys(n) ==
    IsYMap(n)
    => /\ \A i \in 1..(Len(n.ymap) - 1) : Rank(n.ymap[i].k) < Rank(n.ymap[i + 1].k)
       /\ \A i \in 1..Len(n.ymap) : AscendingKeys(n.ymap[i].v)

\* The resources of the document are in the order of the resource list.
InResourceOrder(n) ==
    \A i, j \in 1..Len(n.ymap) :
       i < j => \E x, y \in 1..Len(resources) :
                   x < y /\ resources[x].Name = n.ymap[i].k /\ resources[y].Name = n.ymap[j].k

\* C18: the order of the resources and attributes of the written document is
\* a function of the input: where the sync sorts (mapToSortedMapSlice) the
\* keys ascend at every nesting level, whatever order the maps are ranged
\* over in; where it does not, the resources are in the order they were
\* merged in; and the document is the one the same run over the same input
\* writes.
WrittenOrderDetermined ==
    pc = "synced"
    => /\ rev = "B" => /\ AscendingKeys(file.ResourceUsage)
                       /\ OrderIndependent(usages)
       /\ rev = "A" => InResourceOrder(file.ResourceUsage)
       /\ file = FileOf(RunOf(resources))

\* A written document with two resources, the second with attributes f, g
\* (a group with children b, c) and l, which its schema declares as g, l, f.
WrittenOrderWitness ==
    /\ pc = "synced" /\ rev = "B"
    /\ Len(resources) = 2
    /\ resources[1].Name = "x" /\ resources[2].Name = "aws_y.c"
    /\ Len(file.ResourceUsage.ymap) = 2
    /\ file.ResourceUsage.ymap[1].k = "aws_y.c"
    /\ file.ResourceUsage.ymap[2].k = "x"
    /\ Len(file.ResourceUsage.ymap[2].v.ymap) = 3
    /\ file.ResourceUsage.ymap[2].v.ymap[1].k = "f"
    /\ file.ResourceUsage.ymap[2].v.ymap[2].k = "g"
    /\ Len(file.ResourceUsage.ymap[2].v.ymap[2].v.ymap) = 2
    /\ file.ResourceUsage.ymap[2].v.ymap[3].k = "l"

\* The keys of the items that resourceUsagesToYAMLNode writes: all but the
\* groups with no children.
WrittenKeys(items) ==
    LET Written(item) == item.ValueType # Items \/ Len(Children(RawValue(item))) > 0
        kept == SelectSeq(items, Written)
    IN [i \in 1..Len(kept) |-> kept[i].Key]

\* The node tree of the earlier sync has no node for a resource with no
\* items, and the attributes of a resource in the order of its items.
RenderedInItemOrder ==
    pc = "rendered"
    => IF arg.items = << >> THEN res.node.ymap = << >>
       ELSE /\ Len(res.node.ymap) = 1
            /\ [i \in 1..Len(res.node.ymap[1].v.ymap) |-> res.node.ymap[1].v.ymap[i].k]
                 = WrittenKeys(arg.items)

----------------------------------------------------------------------------
\* The item a merge writes into.

\* C19: a merge writes every source item into an item of the destination,
\* also when the key was not there before: the merge does not end in a
\* run-time panic on a nil item, and after it the caller's list has an item
\* of every key of the source.
MergeWritesItems ==
    (arg.op = "merge" /\ pc \in {"merged", "panic"} /\ "second" \notin DOMAIN res)
    => /\ \A n \in 1..Len(arg.src) : arg.src[n].Key \in KeysOf(res.first.dest)
       /\ (\A n \in 1..Len(arg.src) :
              arg.src[n].ValueType = Items
              => IsItems(arg.src[n].DefaultValue) /\ IsItems(arg.src[n].Value))
          => pc # "panic"

\* The part that holds: a merge returns only when the destination had every
\* key of the source, and it has then written into the items of the caller's
\* list and added none.
MergeOfKnownKeys ==
    (arg.op = "merge" /\ pc = "merged")
    => /\ KeysOf(arg.src) \subseteq KeysOf(arg.dest)
       /\ KeysOf(res.first.dest) = KeysOf(arg.dest)
       /\ \A key \in KeysOf(arg.src) :
             ItemAt(res.first.dest, key).Description = ItemAt(arg.src, key).Description

\* The first merge of a resource: an empty destination and a source with the
\* one item a.  The merge panicked and the caller's list is still empty.
NilItemWritten ==
    /\ pc = "panic"
    /\ arg.op = "merge"
    /\ arg.dest = << >>
    /\ Len(arg.src) = 1 /\ arg.src[1].Key = "a" /\ arg.src[1].ValueType = Int64
    /\ res.first.panic
    /\ res.first.dest = << >>

----------------------------------------------------------------------------
\* Values across syncResourceUsageWithExisting.

\* C20: an item that holds a concrete Value before
\* syncResourceUsageWithExisting holds a concrete Value after it when the
\* usage data supplied has no value for the item's key, whatever the
\* ValueType of the item.
ValueStaysConcrete ==
    (pc = "overlaid" /\ ~IsNoData(arg.data))
    => \A i \in 1..Len(arg.items) :
          (~IsNil(arg.items[i].Value) /\ IsGNull(Get(arg.data, arg.items[i].Key)))
          => ~IsNil(res.items[i].Value)

\* The part that holds: with no usage data at all the items are left as
\* they are, and an Int, Float or StringList item takes the value the data
\* has for its key.
ValueFromData ==
    pc = "overlaid"
    => /\ IsNoData(arg.data) => res.items = arg.items
       /\ ~IsNoData(arg.data)
          => \A i \in 1..Len(arg.items) :
                (arg.items[i].ValueType \in {Int64, Float64, StringArray}
                 /\ ~IsGNull(Get(arg.data, arg.items[i].Key)))
                => ~IsNil(res.items[i].Value)

\* The items a (Int, value 7) and f (Float, value 2.5) synced with usage data
\* that has a value for a only: f has no Value after the call.
ValueLost ==
    /\ pc = "overlaid"
    /\ Len(arg.items) = 2
    /\ arg.items[1].Key = "a" /\ arg.items[1].Value = IntV(7)
    /\ arg.items[2].Key = "f" /\ arg.items[2].Value = FloatV(5)
    /\ DOMAIN arg.data.Attributes = {"a"}
    /\ res.items[1].Value = IntV(9)
    /\ IsNil(res.items[2].Value)

====
